---- MODULE Spec2Model ----
(***************************************************************************)
(* Diagnostics-and-repair pipeline of the firmware generator               *)
(* (backend/traceback.js, class TracebackSystem): the analysis            *)
(* orchestrator analyzeCode with its four passes, the repair suggestion    *)
(* engine getAIFixes, the sanitizer sanitizeFixSuggestion and the patch    *)
(* applier applyFixes; and the three drivers of backend/index.js: the      *)
(* traceback CLI, POST /traceback and POST /upload.                        *)
(*                                                                         *)
(* Text is a sequence of one-character strings; "\n" is the line feed.     *)
(* A confidence is kept in tenths (8 is 0.8, 7 is 0.7).                    *)
(***************************************************************************)
EXTENDS Integers, Sequences, FiniteSets, TLC

(***************************************************************************)
(* JavaScript string primitives used by the pipeline.                      *)
(***************************************************************************)

\* String.prototype.trim: the white space characters of the modelled alphabet
WhiteSpace == {" ", "\t", "\r", "\n"}

\* \d of the regular expressions
Digit == {"0", "1", "2", "3", "4", "5", "6", "7", "8", "9"}

\* [a-zA-Z0-9_] of the fence language tag
TagChar ==
  Digit \cup {"_"} \cup
  {"a", "b", "c", "d", "e", "f", "g", "h", "i", "j", "k", "l", "m", "n", "o",
   "p", "q", "r", "s", "t", "u", "v", "w", "x", "y", "z"} \cup
  {"A", "B", "C", "D", "E", "F", "G", "H", "I", "J", "K", "L", "M", "N", "O",
   "P", "Q", "R", "S", "T", "U", "V", "W", "X", "Y", "Z"}

Min(a, b) == IF a < b THEN a ELSE b

\* s.slice(i - 1): the suffix of s that starts at position i (1-based)
Drop(s, i) == SubSeq(s, i, Len(s))

\* s.startsWith(p)
StartsWith(s, p) == Len(s) >= Len(p) /\ SubSeq(s, 1, Len(p)) = p

RECURSIVE TrimStart(_)
TrimStart(s) ==
  IF s # <<>> /\ Head(s) \in WhiteSpace THEN TrimStart(Tail(s)) ELSE s

RECURSIVE TrimEnd(_)
TrimEnd(s) ==
  IF s # <<>> /\ s[Len(s)] \in WhiteSpace
  THEN TrimEnd(SubSeq(s, 1, Len(s) - 1))
  ELSE s

\* String.prototype.trim
Trim(s) == TrimEnd(TrimStart(s))

\* s.indexOf(p) as a 1-based position at or after from, 0 when there is none
RECURSIVE IndexOf(_, _, _)
IndexOf(s, p, from) ==
  IF from + Len(p) - 1 > Len(s) THEN 0
  ELSE IF SubSeq(s, from, from + Len(p) - 1) = p THEN from
  ELSE IndexOf(s, p, from + 1)

\* s.split('\n'): always at least one piece
RECURSIVE Split(_)
Split(s) ==
  LET i == IndexOf(s, <<"\n">>, 1)
  IN  IF i = 0 THEN <<s>>
      ELSE <<SubSeq(s, 1, i - 1)>> \o Split(Drop(s, i + 1))

\* lines.join('\n')
RECURSIVE Join(_)
Join(lines) ==
  IF Len(lines) = 0 THEN <<>>
  ELSE IF Len(lines) = 1 THEN lines[1]
  ELSE lines[1] \o <<"\n">> \o Join(Tail(lines))

(***************************************************************************)
(* sanitizeFixSuggestion                                                   *)
(***************************************************************************)

\* the backquote character (U+0060)
Backquote == "<backquote>"

Fence == <<Backquote, Backquote, Backquote>>

\* text.match(/```[\s\S]*?```/g): the fenced blocks, leftmost first, each
\* closed by the nearest following fence
RECURSIVE FenceBlocks(_, _)
FenceBlocks(text, from) ==
  LET open == IndexOf(text, Fence, from)
      close == IF open = 0 THEN 0 ELSE IndexOf(text, Fence, open + 3)
  IN  IF open = 0 \/ close = 0 THEN <<>>
      ELSE <<SubSeq(text, open, close + 2)>> \o FenceBlocks(text, close + 3)

\* the length of the longest run of [a-zA-Z0-9_] at the head of s
RECURSIVE TagLen(_)
TagLen(s) ==
  IF s # <<>> /\ Head(s) \in TagChar THEN 1 + TagLen(Tail(s)) ELSE 0

\* block.replace(/```[a-zA-Z0-9_]*/g, '').replace(/```/g, '')
RECURSIVE StripFences(_)
StripFences(s) ==
  IF s = <<>> THEN <<>>
  ELSE IF StartsWith(s, Fence)
       THEN StripFences(Drop(s, 4 + TagLen(Drop(s, 4))))
       ELSE <<Head(s)>> \o StripFences(Tail(s))

\* fences.map(block => block.replace(...).replace(...).trim())
CodePieces(fences) == [i \in 1..Len(fences) |-> Trim(StripFences(fences[i]))]

\* step 1 of the sanitizer: the text the line filter works on
FencedText(raw) ==
  LET text == Trim(raw)
      fences == FenceBlocks(text, 1)
  IN  IF Len(fences) > 0 THEN Trim(Join(CodePieces(fences))) ELSE text

\* c.toLowerCase() for the letters of "Note"
Lower(c) ==
  CASE c = "N" -> "n" [] c = "O" -> "o" [] c = "T" -> "t" [] c = "E" -> "e"
    [] OTHER -> c

\* /^Note[: ]/i.test(s)
IsNote(s) ==
  /\ Len(s) >= 5
  /\ [i \in 1..4 |-> Lower(s[i])] = <<"n", "o", "t", "e">>
  /\ s[5] \in {":", " "}

\* the length of the longest run of \s at the head of s
RECURSIVE SpaceLen(_)
SpaceLen(s) ==
  IF s # <<>> /\ Head(s) \in WhiteSpace THEN 1 + SpaceLen(Tail(s)) ELSE 0

\* /^\/\/\s*Note[: ]/i.test(s)
IsNoteComment(s) ==
  /\ StartsWith(s, <<"/", "/">>)
  /\ IsNote(Drop(s, 3 + SpaceLen(Drop(s, 3))))

\* the length of the longest run of \d at the head of s
RECURSIVE DigitLen(_)
DigitLen(s) ==
  IF s # <<>> /\ Head(s) \in Digit THEN 1 + DigitLen(Tail(s)) ELSE 0

\* /^\d+\s*:?/.test(s)
HasNumberPrefix(s) == DigitLen(s) >= 1

\* s.replace(/^\d+\s*:?/, '') for an s that has the prefix
StripNumberPrefix(s) ==
  LET d == DigitLen(s)
      w == SpaceLen(Drop(s, d + 1))
      rest == Drop(s, d + w + 1)
  IN  IF rest # <<>> /\ Head(rest) = ":" THEN Tail(rest) ELSE rest

\* the loop over the lines: the lines kept, each as it is pushed
RECURSIVE FilterLines(_)
FilterLines(lines) ==
  IF lines = <<>> THEN <<>>
  ELSE
    LET line == Head(lines)
        trimmed == Trim(line)
        rest == FilterLines(Tail(lines))
    IN  IF trimmed = <<>> THEN rest
        ELSE IF StartsWith(trimmed, <<">", ">", ">">>) THEN rest
        ELSE IF StartsWith(trimmed, Fence) THEN rest
        ELSE IF IsNote(trimmed) THEN rest
        ELSE IF IsNoteComment(trimmed) THEN rest
        ELSE IF HasNumberPrefix(trimmed) /\ ~StartsWith(trimmed, <<"#">>)
             THEN LET after == Trim(StripNumberPrefix(trimmed))
                  IN  IF after = <<>> THEN rest ELSE <<after>> \o rest
             ELSE <<line>> \o rest

\* sanitizeFixSuggestion(raw) for a string raw ('' for anything else)
sanitizeFixSuggestion(raw) ==
  IF raw = <<>> THEN <<>>
  ELSE Trim(Join(FilterLines(Split(FencedText(raw)))))

(***************************************************************************)
(* Configuration: the TracebackSystem constructor                          *)
(***************************************************************************)

\* an option value is a string: a model name, "true", "false", or "null"
DefaultModel == "qwen2.5:1.5b"

OtherModel == "codellama:7b"

\* JavaScript truthiness of an option value
Truthy(v) == v \notin {"null", "undefined", "false", ""}

\* the option objects a caller passes to the constructor: a function from the
\* keys it sets to their values
GivenOptions ==
  { g \in UNION { [K -> {"false", "null", DefaultModel, OtherModel}] :
                    K \in SUBSET {"useAI", "aiModel", "fallbackModel"} } :
      /\ "useAI" \in DOMAIN g => g["useAI"] = "false"
      /\ "aiModel" \in DOMAIN g => g["aiModel"] = OtherModel
      /\ "fallbackModel" \in DOMAIN g => g["fallbackModel"] \in {"null", OtherModel} }

\* options[k] of the caller's object ("undefined" for a key it does not set)
Given(g, k) == IF k \in DOMAIN g THEN g[k] ELSE "undefined"

\* this.options as the constructor leaves it: the defaults, then ...options
\* over them, so that a key the caller sets keeps the caller's value
constructor(g) ==
  LET defaults ==
        [useAI |-> IF Given(g, "useAI") # "false" THEN "true" ELSE "false",
         aiModel |-> IF Truthy(Given(g, "aiModel"))
                     THEN Given(g, "aiModel") ELSE DefaultModel,
         fallbackModel |-> IF Truthy(Given(g, "fallbackModel"))
                           THEN Given(g, "fallbackModel") ELSE DefaultModel,
         useCompiler |->
           IF Given(g, "useCompiler") # "false" THEN "true" ELSE "false",
         useStaticAnalysis |->
           IF Given(g, "useStaticAnalysis") # "false" THEN "true"
           ELSE "false"]
  IN  [k \in {"useAI", "aiModel", "fallbackModel", "useCompiler",
              "useStaticAnalysis"} |->
         IF k \in DOMAIN g THEN g[k] ELSE defaults[k]]

(***************************************************************************)
(* The inference service: what one axios.post can come back with           *)
(***************************************************************************)

\* the substrings of an error text the retry policy looks for
Markers == {"requires more system memory", "timeout"}

\* a rejected call: a transport failure (no response; the code and the
\* message are the client's) or an HTTP error status (the message is the
\* client's "Request failed with status code ...", the body may carry a
\* non-empty error string). A text is kept as the set of markers it contains.
InferenceErrors ==
  [code : {"ECONNABORTED", "ECONNREFUSED"}, hasDataError : {FALSE},
   dataError : {{}}, message : SUBSET Markers]
  \cup
  [code : {"ERR_BAD_RESPONSE"}, hasDataError : {TRUE},
   dataError : SUBSET Markers, message : {{}}]
  \cup
  [code : {"ERR_BAD_RESPONSE"}, hasDataError : {FALSE},
   dataError : {{}}, message : {{}}]

\* the TypeError of reading a property of null
TypeError ==
  [code |-> "undefined", hasDataError |-> FALSE, dataError |-> {},
   message |-> {}]

\* a field that is not a string
NotAString == <<"<not a string>">>

\* response.data of a resolved call: a string, an object with some of the
\* fields response, code, fix, text, or null, or undefined
Data(kind, str, response, code, fix, text) ==
  [kind |-> kind, str |-> str, response |-> response, code |-> code,
   fix |-> fix, text |-> text]

CodeX == <<"x", ";">>

FencedX ==
  Fence \o <<"c", "\n", "x", ";", "\n">> \o Fence
        \o <<"\n", "N", "o", "t", "e", ":", " ", "k">>

NoteOnly == <<"N", "o", "t", "e", ":", " ", "k">>

NumberedX == <<"1", ":", " ", "x", ";">>

ResponseData ==
  { Data("string", CodeX, NotAString, NotAString, NotAString, NotAString),
    Data("string", NoteOnly, NotAString, NotAString, NotAString, NotAString),
    Data("string", <<>>, NotAString, NotAString, NotAString, NotAString),
    Data("object", NotAString, FencedX, NotAString, NotAString, NotAString),
    Data("object", NotAString, NoteOnly, NotAString, NotAString, NotAString),
    Data("object", NotAString, <<>>, NotAString, NotAString, NotAString),
    Data("object", NotAString, NotAString, NumberedX, NotAString, NotAString),
    Data("object", NotAString, NotAString, NotAString, CodeX, NotAString),
    Data("object", NotAString, NotAString, NotAString, NotAString, NoteOnly),
    Data("null", NotAString, NotAString, NotAString, NotAString, NotAString),
    Data("undefined", NotAString, NotAString, NotAString, NotAString,
         NotAString) }

\* JSON.stringify(body) of a response object that has no string under code,
\* fix or text: one line, the response field quoted when it is there
JSONStringify(data) ==
  IF data.response = NotAString THEN <<"{", "}">>
  ELSE <<"{", "\"", "r", "\"", ":", "\"">> \o data.response \o <<"\"", "}">>

\* response?.data?.response || response?.data
Body(data) ==
  IF data.kind = "object" /\ data.response # NotAString /\ data.response # <<>>
  THEN Data("string", data.response, NotAString, NotAString, NotAString,
            NotAString)
  ELSE data

\* reading body.code of a null body throws
BodyThrows(data) == Body(data).kind = "null"

\* the raw fixSuggestion taken from the body ('' when there is none)
RawSuggestion(data) ==
  LET body == Body(data)
  IN  IF body.kind = "string" THEN body.str
      ELSE IF body.kind = "object"
           THEN IF body.code # NotAString THEN body.code
                ELSE IF body.fix # NotAString THEN body.fix
                ELSE IF body.text # NotAString THEN body.text
                ELSE JSONStringify(body)
           ELSE <<>>

\* the sanitized suggestion of each response of the model
Sanitized == [d \in ResponseData |-> sanitizeFixSuggestion(RawSuggestion(d))]

(***************************************************************************)
(* getAIFixes: the retry policy                                            *)
(***************************************************************************)

\* errors.slice(0, 5)
FixLimit == 5

\* the confidence of a Fix, in tenths
PrimaryConfidence == 8

FallbackConfidence == 7

\* the longest error list a caller supplies
MaxErrors == 6

\* the i-th Issue of the supplied list
ErrorAt(i) ==
  [file |-> "a.c", line |-> i, type |-> "syntax", severity |-> "error"]

\* msg of the inner handler: the response's error text, else the message
Msg(e) == IF e.hasDataError THEN e.dataError ELSE e.message

\* msg.toLowerCase().includes('requires more system memory')
IsOutOfMemory(e) == "requires more system memory" \in Msg(e)

\* innerErr.code === 'ECONNABORTED' || msg.includes('timeout')
IsTimeout(e) == e.code = "ECONNABORTED" \/ "timeout" \in Msg(e)

\* err.code === 'ECONNABORTED' || errMsg.includes('timeout') of the outer handler
IsOuterTimeout(e) == e.code = "ECONNABORTED" \/ "timeout" \in e.message

(***************************************************************************)
(* State                                                                   *)
(***************************************************************************)

VARIABLES
  options,    \* this.options
  axios,      \* the module's axios: "loaded", or "null" when require failed
  thisFixes,  \* this.fixes
  pc,         \* the position of the running operation
  errors,     \* getAIFixes: the errors argument
  errIdx,     \* getAIFixes: the position of the outer loop in errors.slice(0, 5)
  modelIdx,   \* getAIFixes: the position of the inner loop in modelsToTry
  fixes,      \* getAIFixes: the local list fixes
  returned,   \* the list the operation returned
  calls,      \* history: the number of axios.post calls per modelsToTry position
  lastCall,   \* history: the last axios.post call and how it ended
  aborted,    \* history: the outer loop was left by break
  disk,       \* the files of codeDir: a function from file name to content
  fixArg,     \* applyFixes: the fixes argument
  fixIdx,     \* applyFixes: the position of the loop over the fixes
  fileMap,    \* applyFixes: the Map of loaded files, in insertion order
  applied,    \* applyFixes: the local list applied
  writeIdx,   \* applyFixes: the position of the loop over fileMap.entries()
  writes,     \* history: the fs.writeFileSync calls of this applyFixes, per file
  runs,       \* history: the number of applyFixes calls made
  firstDisk,  \* history: the files as the first applyFixes call left them
  thisErrors,   \* this.errors
  thisWarnings, \* this.warnings
  filesArg,   \* analyzeCode: the files argument
  codeFiles,  \* analyzeCode: the paths of the files analysed
  tools,      \* history: what each spawnSync of the first analyzeCode returned
  pushed,     \* history: the Issues this analyzeCode has pushed, in order
  starts,     \* history: the files at the start of each analyzeCode
  results,    \* history: the Result each analyzeCode returned
  driver,     \* the driver of the pipeline: "cli", "traceback" or "upload"
  args,       \* the CLI: process.argv.slice(2)
  report,     \* the driver's results object, which it prints or responds with
  raw,        \* sanitizeFixSuggestion: the raw argument
  clean       \* sanitizeFixSuggestion: the string returned

aiVars ==
  <<options, axios, thisFixes, errors, errIdx, modelIdx, fixes, returned,
    calls, lastCall, aborted>>

applyVars ==
  <<disk, fixArg, fixIdx, fileMap, applied, writeIdx, writes, runs, firstDisk>>

anVars ==
  <<thisErrors, thisWarnings, filesArg, codeFiles, tools, pushed, starts,
    results>>

drvVars == <<driver, args, report>>

sanVars == <<raw, clean>>

vars == <<pc, aiVars, applyVars, anVars, drvVars, sanVars>>

NoCall ==
  [error |-> 0, attempt |-> 0, model |-> "none", result |-> "none",
   fixesBefore |-> <<>>]

\* const primaryModel = this.options.aiModel || 'qwen2.5:1.5b'
primaryModel ==
  IF Truthy(options["aiModel"]) THEN options["aiModel"] ELSE DefaultModel

\* const fallbackModel = this.options.fallbackModel || null
fallbackModel ==
  IF Truthy(options["fallbackModel"]) THEN options["fallbackModel"] ELSE "null"

\* modelsToTry of one error
modelsToTry ==
  IF fallbackModel # "null" /\ fallbackModel # primaryModel
  THEN <<primaryModel, fallbackModel>>
  ELSE <<primaryModel>>

\* a slice that keeps one error too many
Selected_OneMore == SubSeq(errors, 1, Min(FixLimit + 1, Len(errors)))

\* a loop over the whole list, without the slice
Selected_NoSlice == errors

\* errors.slice(0, 5)
Selected == SubSeq(errors, 1, Min(FixLimit, Len(errors)))

\* an inner catch without its timeout branch
InnerCatch_NoTimeoutRetry(e, model) ==
  IF IsOutOfMemory(e) /\ model # fallbackModel THEN "continue" ELSE "throw"

\* an inner catch that goes on to the next model after any failure
InnerCatch_RetryAny(e, model) ==
  IF model # fallbackModel /\ fallbackModel # "null" THEN "continue"
  ELSE "throw"

\* the inner catch: "continue" with the next model, or "throw" to the outer
InnerCatch(e, model) ==
  IF IsOutOfMemory(e) /\ model # fallbackModel THEN "continue"
  ELSE IF IsTimeout(e) /\ model # fallbackModel /\ fallbackModel # "null"
       THEN "continue"
       ELSE "throw"

\* an outer catch that skips the error after any failure
OuterCatch_AlwaysContinue(e) == "continue"

\* the outer catch: "continue" with the next error, or "break"
OuterCatch(e) == IF IsOuterTimeout(e) THEN "continue" ELSE "break"

\* a confidence that ignores the model
Confidence_AlwaysPrimary(model) == PrimaryConfidence

\* const confidence = model === primaryModel ? 0.8 : 0.7
Confidence(model) ==
  IF model = primaryModel THEN PrimaryConfidence ELSE FallbackConfidence

\* how the retry policy names a failure
Signal(e) ==
  IF IsOutOfMemory(e) THEN "resource_exhaustion"
  ELSE IF IsTimeout(e) THEN "timeout"
  ELSE "other"

\* the outer loop goes on to the next error, or ends
NextError ==
  /\ errIdx' = errIdx + 1
  /\ modelIdx' = 1
  /\ pc' = IF errIdx + 1 > Len(Selected) THEN "ai_return" ELSE "ai_loop"
  /\ aborted' = aborted

\* the inner loop goes on to the next model; after the last one it ends
\* without an exception and the outer loop goes on
NextModel ==
  IF modelIdx < Len(modelsToTry)
  THEN /\ modelIdx' = modelIdx + 1
       /\ UNCHANGED <<errIdx, pc, aborted>>
  ELSE NextError

\* a success that does not leave the inner loop
AfterSuccess_NoBreak == NextModel

\* "Success with this model; stop trying others": break of the inner loop
AfterSuccess == NextError

\* break of the outer loop
Break ==
  /\ pc' = "ai_return"
  /\ aborted' = TRUE
  /\ UNCHANGED <<errIdx, modelIdx>>

\* an exception e in the inner try block, caught by the inner handler and,
\* when that one throws it on, by the outer handler
Caught(e) ==
  IF InnerCatch(e, modelsToTry[modelIdx]) = "continue" THEN NextModel
  ELSE IF OuterCatch(e) = "continue" THEN NextError
  ELSE Break

\* the history of one axios.post
Called(result) ==
  /\ calls' = [calls EXCEPT ![modelIdx] = @ + 1]
  /\ lastCall' = [error |-> errIdx, attempt |-> modelIdx,
                  model |-> modelsToTry[modelIdx], result |-> result,
                  fixesBefore |-> fixes]

\* getAIFixes up to its first call of the inference service
EnterFixes(n) ==
  /\ errors' = [i \in 1..n |-> ErrorAt(i)]
  /\ IF axios = "null" \/ ~Truthy(options["useAI"])
     THEN /\ returned' = <<>>
          /\ pc' = "ai_done"
          /\ UNCHANGED <<errIdx, modelIdx, fixes>>
     ELSE /\ fixes' = <<>>
          /\ errIdx' = 1
          /\ modelIdx' = 1
          /\ pc' = IF n = 0 THEN "ai_return" ELSE "ai_loop"
          /\ UNCHANGED returned
  /\ UNCHANGED <<options, axios, thisFixes, calls, lastCall, aborted>>
  /\ UNCHANGED <<applyVars, anVars, drvVars, sanVars>>

\* getAIFixes(errors, codeFiles) is called with n errors
GetAIFixes(n) ==
  /\ pc = "idle"
  /\ EnterFixes(n)

\* axios.post for the current error and model resolves with response.data = data
PostResolves(data) ==
  /\ pc = "ai_loop"
  /\ IF BodyThrows(data)
     THEN /\ Called("other")
          /\ Caught(TypeError)
          /\ UNCHANGED fixes
     ELSE LET fixSuggestion == Sanitized[data]
              model == modelsToTry[modelIdx]
          IN  /\ fixes' =
                   IF fixSuggestion # <<>>
                   THEN Append(fixes, [error |-> Selected[errIdx],
                                       suggestion |-> fixSuggestion,
                                       confidence |-> Confidence(model)])
                   ELSE fixes
              /\ Called(IF fixSuggestion # <<>> THEN "fix" ELSE "empty")
              /\ AfterSuccess
  /\ UNCHANGED <<options, axios, thisFixes, errors, returned>>
  /\ UNCHANGED <<applyVars, anVars, drvVars, sanVars>>

\* axios.post for the current error and model rejects with e
PostRejects(e) ==
  /\ pc = "ai_loop"
  /\ Called(Signal(e))
  /\ Caught(e)
  /\ UNCHANGED <<options, axios, thisFixes, errors, fixes, returned>>
  /\ UNCHANGED <<applyVars, anVars, drvVars, sanVars>>

\* this.fixes = fixes; return fixes
ReturnFixes ==
  /\ pc = "ai_return"
  /\ thisFixes' = fixes
  /\ returned' = fixes
  /\ pc' = "ai_done"
  /\ UNCHANGED <<options, axios, errors, errIdx, modelIdx, fixes, calls,
                 lastCall, aborted>>
  /\ UNCHANGED <<applyVars, anVars, drvVars, sanVars>>

(***************************************************************************)
(* applyFixes: the patch applier                                           *)
(***************************************************************************)

\* the longest fixes list a caller passes
MaxFixes == 2

\* the largest line number of an Issue
MaxLine == 3

\* the contents a source file starts with
FileContents ==
  { <<>>, <<"a">>, <<"a", "\n">>, <<"a", "\n", "b">>,
    <<"a", "\n", "b", "\n">> }

\* the suggestions of the fixes passed to applyFixes
Suggestions == { <<" ", "x", "\n">>, <<"x", "\n", "y">> }

\* the fixes passed to applyFixes
ApplyInputs ==
  [error : [file : {"a.c"}, line : 0..MaxLine], suggestion : Suggestions]
  \cup
  [error : [file : {"b.c"}, line : {1}], suggestion : {<<" ", "x", "\n">>}]

\* the lists of at most n fixes
FixLists(n) == UNION { [1..k -> ApplyInputs] : k \in 0..n }

\* the file names of the model
FileNames == {"a.c", "b.c", "b.h"}

\* fileMap.has(filePath)
Has(map, file) == \E i \in 1..Len(map) : map[i].path = file

\* the position of the entry of file in the Map
EntryOf(map, file) == CHOOSE i \in 1..Len(map) : map[i].path = file

\* a loop body that keeps the first replacement of a line: a later Fix on a
\* line that already has an audit record is skipped
ApplyOne_FirstWins(fix, files, map, done) ==
  LET error == fix.error
  IN  IF error.file \notin DOMAIN files
      THEN [fileMap |-> map, applied |-> done]
      ELSE
        LET loaded ==
              IF Has(map, error.file) THEN map
              ELSE Append(map, [path |-> error.file,
                                lines |-> Split(files[error.file])])
            at == EntryOf(loaded, error.file)
            lines == loaded[at].lines
            lineIdx == error.line - 1
            patched == \E k \in 1..Len(done) :
                         done[k].file = error.file /\ done[k].line = error.line
        IN  IF lineIdx >= 0 /\ lineIdx < Len(lines) /\ ~patched
            THEN [fileMap |->
                    [loaded EXCEPT ![at].lines[lineIdx + 1] =
                                     Trim(fix.suggestion)],
                  applied |->
                    Append(done, [file |-> error.file, line |-> error.line,
                                  old |-> lines[lineIdx + 1],
                                  new |-> Trim(fix.suggestion)])]
            ELSE [fileMap |-> loaded, applied |-> done]

\* a loop body that splices the lines of the suggestion into the array
ApplyOne_Splice(fix, files, map, done) ==
  LET error == fix.error
  IN  IF error.file \notin DOMAIN files
      THEN [fileMap |-> map, applied |-> done]
      ELSE
        LET loaded ==
              IF Has(map, error.file) THEN map
              ELSE Append(map, [path |-> error.file,
                                lines |-> Split(files[error.file])])
            at == EntryOf(loaded, error.file)
            lines == loaded[at].lines
            lineIdx == error.line - 1
        IN  IF lineIdx >= 0 /\ lineIdx < Len(lines)
            THEN [fileMap |->
                    [loaded EXCEPT ![at].lines =
                       SubSeq(lines, 1, lineIdx)
                         \o Split(Trim(fix.suggestion))
                         \o SubSeq(lines, lineIdx + 2, Len(lines))],
                  applied |->
                    Append(done, [file |-> error.file, line |-> error.line,
                                  old |-> lines[lineIdx + 1],
                                  new |-> Trim(fix.suggestion)])]
            ELSE [fileMap |-> loaded, applied |-> done]

\* a loop body whose range check lets the index lines.length through: the
\* assignment then extends the array and the old line is undefined
ApplyOne_OffByOne(fix, files, map, done) ==
  LET error == fix.error
  IN  IF error.file \notin DOMAIN files
      THEN [fileMap |-> map, applied |-> done]
      ELSE
        LET loaded ==
              IF Has(map, error.file) THEN map
              ELSE Append(map, [path |-> error.file,
                                lines |-> Split(files[error.file])])
            at == EntryOf(loaded, error.file)
            lines == loaded[at].lines
            lineIdx == error.line - 1
        IN  IF lineIdx >= 0 /\ lineIdx <= Len(lines)
            THEN [fileMap |->
                    [loaded EXCEPT ![at].lines =
                       IF lineIdx = Len(lines)
                       THEN Append(lines, Trim(fix.suggestion))
                       ELSE [lines EXCEPT ![lineIdx + 1] =
                                            Trim(fix.suggestion)]],
                  applied |->
                    Append(done, [file |-> error.file, line |-> error.line,
                                  old |-> IF lineIdx = Len(lines) THEN <<>>
                                          ELSE lines[lineIdx + 1],
                                  new |-> Trim(fix.suggestion)])]
            ELSE [fileMap |-> loaded, applied |-> done]

\* the body of the loop over the fixes, for one fix: the Map and the list
\* applied as it leaves them
ApplyOne(fix, files, map, done) ==
  LET error == fix.error
  IN  IF error.file \notin DOMAIN files
      THEN [fileMap |-> map, applied |-> done]
      ELSE
        LET loaded ==
              IF Has(map, error.file) THEN map
              ELSE Append(map, [path |-> error.file,
                                lines |-> Split(files[error.file])])
            at == EntryOf(loaded, error.file)
            lines == loaded[at].lines
            lineIdx == error.line - 1
        IN  IF lineIdx >= 0 /\ lineIdx < Len(lines)
            THEN [fileMap |->
                    [loaded EXCEPT ![at].lines[lineIdx + 1] =
                                     Trim(fix.suggestion)],
                  applied |->
                    Append(done, [file |-> error.file, line |-> error.line,
                                  old |-> lines[lineIdx + 1],
                                  new |-> Trim(fix.suggestion)])]
            ELSE [fileMap |-> loaded, applied |-> done]

\* the loop over the fixes is entered
EnterApply(list) ==
  /\ fixArg' = list
  /\ fixIdx' = 1
  /\ fileMap' = <<>>
  /\ applied' = <<>>
  /\ writeIdx' = 1
  /\ writes' = [f \in FileNames |-> 0]
  /\ runs' = runs + 1
  /\ pc' = IF Len(list) = 0 THEN "apply_done" ELSE "apply_loop"
  /\ UNCHANGED <<disk, firstDisk>>
  /\ UNCHANGED <<aiVars, anVars, drvVars, sanVars>>

\* applyFixes(codeDir, fixes) is called
ApplyFixes(list) ==
  /\ pc = "idle"
  /\ EnterApply(list)

\* applyFixes is called once more with the list of the call before
ApplyFixesAgain ==
  /\ pc = "apply_done"
  /\ runs = 1
  /\ EnterApply(fixArg)

\* an iteration that writes the file it has just patched
ApplyFix_WriteThrough ==
  /\ pc = "apply_loop"
  /\ LET r == ApplyOne(fixArg[fixIdx], disk, fileMap, applied)
         file == fixArg[fixIdx].error.file
         hit == Len(r.applied) > Len(applied)
         written ==
           IF hit
           THEN [disk EXCEPT ![file] =
                   Join(r.fileMap[EntryOf(r.fileMap, file)].lines)]
           ELSE disk
     IN  /\ fileMap' = r.fileMap
         /\ applied' = r.applied
         /\ disk' = written
         /\ writes' = IF hit THEN [writes EXCEPT ![file] = @ + 1] ELSE writes
         /\ fixIdx' = fixIdx + 1
         /\ pc' = IF fixIdx < Len(fixArg) THEN "apply_loop"
                  ELSE IF Len(r.fileMap) = 0 THEN "apply_done"
                  ELSE "apply_write"
         /\ firstDisk' = IF fixIdx = Len(fixArg) /\ Len(r.fileMap) = 0
                            /\ runs = 1
                         THEN disk ELSE firstDisk
  /\ UNCHANGED <<fixArg, writeIdx, runs>>
  /\ UNCHANGED <<aiVars, anVars, drvVars, sanVars>>

\* one iteration of the loop over the fixes
ApplyFix ==
  /\ pc = "apply_loop"
  /\ LET r == ApplyOne(fixArg[fixIdx], disk, fileMap, applied)
     IN  /\ fileMap' = r.fileMap
         /\ applied' = r.applied
         /\ fixIdx' = fixIdx + 1
         /\ pc' = IF fixIdx < Len(fixArg) THEN "apply_loop"
                  ELSE IF Len(r.fileMap) = 0 THEN "apply_done"
                  ELSE "apply_write"
         /\ firstDisk' = IF fixIdx = Len(fixArg) /\ Len(r.fileMap) = 0
                            /\ runs = 1
                         THEN disk ELSE firstDisk
  /\ UNCHANGED <<disk, fixArg, writeIdx, writes, runs>>
  /\ UNCHANGED <<aiVars, anVars, drvVars, sanVars>>

\* one iteration of the loop over fileMap.entries(): fs.writeFileSync
WriteFile ==
  /\ pc = "apply_write"
  /\ LET entry == fileMap[writeIdx]
         written == [disk EXCEPT ![entry.path] = Join(entry.lines)]
     IN  /\ disk' = written
         /\ writes' = [writes EXCEPT ![entry.path] = @ + 1]
         /\ writeIdx' = writeIdx + 1
         /\ pc' = IF writeIdx < Len(fileMap) THEN "apply_write"
                  ELSE "apply_done"
         /\ firstDisk' = IF writeIdx = Len(fileMap) /\ runs = 1
                         THEN written ELSE firstDisk
  /\ UNCHANGED <<fixArg, fixIdx, fileMap, applied, runs>>
  /\ UNCHANGED <<aiVars, anVars, drvVars, sanVars>>

(***************************************************************************)
(* analyzeCode: the heuristics of checkSyntax and checkCodeQuality         *)
(***************************************************************************)

\* s.endsWith(p)
EndsWith(s, p) ==
  Len(s) >= Len(p) /\ SubSeq(s, Len(s) - Len(p) + 1, Len(s)) = p

\* s.includes(p)
Includes(s, p) == IndexOf(s, p, 1) # 0

\* the line terminators of the regular expressions: . does not match them,
\* and $ with the flag m matches in front of them
LineTerminator == {"\n", "\r"}

\* the positions of a line where $ matches, each as the position of the
\* character that follows
LineEnds(line) ==
  { e \in 1..(Len(line) + 1) : e = Len(line) + 1 \/ line[e] \in LineTerminator }

\* the characters from position a to position b are all in the set
AllIn(s, a, b, set) == \A j \in a..b : s[j] \in set

\* /[^;{}]\s*$/m.test(line)
MissingSemicolon(line) ==
  \E i \in 1..Len(line) : \E e \in LineEnds(line) :
    /\ i < e
    /\ line[i] \notin {";", "{", "}"}
    /\ AllIn(line, i + 1, e - 1, WhiteSpace)

\* /#include\s*<[^>]+$/m.test(line)
IncompleteInclude(line) ==
  \E p \in 1..Len(line) : \E e \in LineEnds(line) :
    LET lt == p + 8 + SpaceLen(Drop(line, p + 8))
    IN  /\ StartsWith(Drop(line, p), <<"#", "i", "n", "c", "l", "u", "d", "e">>)
        /\ lt <= Len(line)
        /\ line[lt] = "<"
        /\ lt + 1 < e
        /\ \A j \in (lt + 1)..(e - 1) : line[j] # ">"

\* /\([^)]*$/m, /\[[^\]]*$/m and /"[^"]*$/m: the opening character with no
\* closing character between it and the end of the line
Unclosed(line, open, close) ==
  \E i \in 1..Len(line) : \E e \in LineEnds(line) :
    /\ i < e
    /\ line[i] = open
    /\ \A j \in (i + 1)..(e - 1) : line[j] # close

\* the syntaxChecks, in the order of the array: the message of each
SyntaxMessages ==
  << <<"Missing semicolon or closing brace">>,
     <<"Incomplete #include directive">>,
     <<"Unclosed parenthesis">>,
     <<"Unclosed bracket">>,
     <<"Unclosed string literal">> >>

\* check.pattern.test(line) for the check at position c of syntaxChecks
SyntaxPattern(c, line) ==
  CASE c = 1 -> MissingSemicolon(line)
    [] c = 2 -> IncompleteInclude(line)
    [] c = 3 -> Unclosed(line, "(", ")")
    [] c = 4 -> Unclosed(line, "[", "]")
    [] c = 5 -> Unclosed(line, "\"", "\"")

\* path.basename(p) of a path without trailing separators
RECURSIVE Basename(_)
Basename(p) ==
  LET i == IndexOf(p, <<"/">>, 1)
  IN  IF i = 0 THEN p ELSE Basename(Drop(p, i + 1))

\* the Issue records the passes push; a message the code writes as a literal
\* is kept as one token, and the field code (the text of the line) is left out
Issue(file, line, column, message, type, severity) ==
  [file |-> file, line |-> line, column |-> column, message |-> message,
   type |-> type, severity |-> severity]

\* the Issues checkSyntax pushes for the line at index idx of a file
SyntaxOfLine(file, line, idx) ==
  LET Fires(c) ==
        SyntaxPattern(c, line) /\ ~EndsWith(Trim(line), <<"\\">>)
      hits == SelectSeq(<<1, 2, 3, 4, 5>>, Fires)
  IN  [k \in 1..Len(hits) |->
         Issue(Basename(file), idx + 1, Len(line), SyntaxMessages[hits[k]],
               "syntax", "error")]

\* /\w+\s+\w+;/ matches in the line
DeclarationLike(line) ==
  \E a \in 1..Len(line) : \E b \in (a + 1)..Len(line) :
    \E c \in (b + 2)..Len(line) :
      /\ line[a] \in TagChar
      /\ AllIn(line, a + 1, b, WhiteSpace)
      /\ AllIn(line, b + 1, c - 1, TagChar)
      /\ line[c] = ";"

\* the Issues checkCodeQuality pushes for the line at index idx of a file
QualityOfLine(file, line, idx) ==
  LET volatilePointer ==
        /\ Includes(line, <<"v", "o", "l", "a", "t", "i", "l", "e">>)
        /\ Includes(line, <<"*">>)
        /\ ~Includes(line, <<"(">>)
      uninitialized ==
        /\ DeclarationLike(line)
        /\ ~Includes(line, <<"=">>)
        /\ ~Includes(line, <<"e", "x", "t", "e", "r", "n">>)
        /\ ~Includes(line, <<"s", "t", "a", "t", "i", "c">>)
  IN  (IF volatilePointer
       THEN <<Issue(Basename(file), idx + 1, 0,
                    <<"Potential undefined behavior with volatile pointer">>,
                    "quality", "warning")>>
       ELSE <<>>)
      \o
      (IF uninitialized
       THEN <<Issue(Basename(file), idx + 1, 0,
                    <<"Potentially uninitialized variable">>,
                    "quality", "warning")>>
       ELSE <<>>)

(***************************************************************************)
(* analyzeCode: the files of the target directory                          *)
(***************************************************************************)

\* codeDir, the directory analyzeCode is pointed at
CodeDir == <<"d">>

\* the characters of the file names of the model
NameChars ==
  ("a.c" :> <<"a", ".", "c">>) @@ ("b.c" :> <<"b", ".", "c">>) @@ ("b.h" :> <<"b", ".", "h">>) @@
  ("r.md" :> <<"r", ".", "m", "d">>) @@ ("__test_compile.c" :> <<"_", "_", "t", "e", "s", "t", "_", "c", "o", "m", "p", "i", "l", "e", ".", "c">>) @@
  ("__test_compile.o" :> <<"_", "_", "t", "e", "s", "t", "_", "c", "o", "m", "p", "i", "l", "e", ".", "o">>)

\* fs.readdirSync lists the entries in the order of their names
DirOrder ==
  <<"__test_compile.c", "__test_compile.o", "a.c", "b.c", "b.h", "r.md">>

\* path.join(codeDir, f) for a name f without separators
PathJoin(f) == CodeDir \o <<"/">> \o f

\* the target directory when it does not exist: it has no entry a path can
\* name, readdirSync and writeFileSync throw ENOENT
NoDir == ("<ENOENT>" :> <<>>)

\* fs.existsSync(path) in the directory dsk
Exists(dsk, path) ==
  /\ dsk # NoDir
  /\ \E f \in DOMAIN dsk : PathJoin(NameChars[f]) = path

\* fs.readFileSync(path, 'utf8') of a file that exists
ReadFile(dsk, path) ==
  dsk[CHOOSE f \in DOMAIN dsk : PathJoin(NameChars[f]) = path]

\* the concatenation of a sequence of sequences
RECURSIVE Flatten(_)
Flatten(seqs) ==
  IF Len(seqs) = 0 THEN <<>> ELSE Head(seqs) \o Flatten(Tail(seqs))

\* pieces.join(sep)
RECURSIVE JoinBy(_, _)
JoinBy(pieces, sep) ==
  IF Len(pieces) = 0 THEN <<>>
  ELSE IF Len(pieces) = 1 THEN pieces[1]
  ELSE pieces[1] \o sep \o JoinBy(Tail(pieces), sep)

\* fs.readdirSync(codeDir).filter(...): the names that end in .c, .h or .cpp
SourceFiles(dsk) ==
  LET IsSource(f) ==
        /\ f \in DOMAIN dsk
        /\ \/ EndsWith(NameChars[f], <<".", "c">>)
           \/ EndsWith(NameChars[f], <<".", "h">>)
           \/ EndsWith(NameChars[f], <<".", "c", "p", "p">>)
      found == SelectSeq(DirOrder, IsSource)
  IN  [i \in 1..Len(found) |-> NameChars[found[i]]]

\* files.filter(f => f.endsWith('.c') || f.endsWith('.cpp'))
cFiles(files) ==
  LET IsC(f) == EndsWith(f, <<".", "c">>) \/ EndsWith(f, <<".", "c", "p", "p">>)
  IN  SelectSeq(files, IsC)

\* checkSyntax(files): the Issues pushed to this.errors, in the order pushed
checkSyntax(files, dsk) ==
  Flatten([i \in 1..Len(files) |->
    IF ~Exists(dsk, files[i]) THEN <<>>
    ELSE LET lines == Split(ReadFile(dsk, files[i]))
         IN  Flatten([k \in 1..Len(lines) |->
                        SyntaxOfLine(files[i], lines[k], k - 1)])])

\* checkCodeQuality(files): the Issues pushed to this.warnings
checkCodeQuality(files, dsk) ==
  Flatten([i \in 1..Len(files) |->
    IF ~Exists(dsk, files[i]) THEN <<>>
    ELSE LET lines == Split(ReadFile(dsk, files[i]))
         IN  Flatten([k \in 1..Len(lines) |->
                        QualityOfLine(files[i], lines[k], k - 1)])])

\* /#include\s*[<"]([^>"]+)[>"]/ matched at position p of s: the position of
\* the closing character, 0 when there is no match at p
IncludeAt(s, p) ==
  LET q == p + 8 + SpaceLen(Drop(s, p + 8))
      RECURSIVE NameLen(_)
      NameLen(j) ==
        IF j <= Len(s) /\ s[j] \notin {">", "\""} THEN 1 + NameLen(j + 1)
        ELSE 0
      n == NameLen(q + 1)
  IN  IF /\ StartsWith(Drop(s, p), <<"#", "i", "n", "c", "l", "u", "d", "e">>)
         /\ q <= Len(s)
         /\ s[q] \in {"<", "\""}
         /\ n >= 1
         /\ q + n + 1 <= Len(s)
      THEN q + n + 1
      ELSE 0

\* the matches of the pattern with the flag g from position p on: each as
\* its first position, its last position and its group 1
RECURSIVE IncludeMatches(_, _)
IncludeMatches(s, p) ==
  IF p > Len(s) THEN <<>>
  ELSE IF IncludeAt(s, p) = 0 THEN IncludeMatches(s, p + 1)
  ELSE LET e == IncludeAt(s, p)
           q == p + 8 + SpaceLen(Drop(s, p + 8))
       IN  <<[first |-> p, last |-> e, name |-> SubSeq(s, q + 1, e - 1)]>>
           \o IncludeMatches(s, e + 1)

\* Array.from(new Set(list)): the first occurrence of each element
RECURSIVE Distinct(_)
Distinct(list) ==
  IF Len(list) = 0 THEN <<>>
  ELSE LET front == Distinct(SubSeq(list, 1, Len(list) - 1))
           last == list[Len(list)]
       IN  IF \E i \in 1..Len(front) : front[i] = last THEN front
           ELSE Append(front, last)

\* extractIncludes(files)
extractIncludes(files, dsk) ==
  Distinct(Flatten([i \in 1..Len(files) |->
    IF ~Exists(dsk, files[i]) THEN <<>>
    ELSE LET found == IncludeMatches(ReadFile(dsk, files[i]), 1)
         IN  [k \in 1..Len(found) |->
                <<"#", "i", "n", "c", "l", "u", "d", "e", " ", "<">> \o found[k].name \o <<">">>]]))

\* content.replace(/#include\s*[<"][^>"]+[>"]/g, '')
RemoveIncludes(s) ==
  LET found == IncludeMatches(s, 1)
      Kept(j) == \A k \in 1..Len(found) : j < found[k].first \/ j > found[k].last
      keep == SelectSeq([j \in 1..Len(s) |-> j], Kept)
  IN  [k \in 1..Len(keep) |-> s[keep[k]]]

\* combineCode(files)
combineCode(files, dsk) ==
  LET Present(f) == Exists(dsk, f)
      present == SelectSeq(files, Present)
  IN  JoinBy([i \in 1..Len(present) |->
                RemoveIncludes(ReadFile(dsk, present[i]))], <<"\n", "\n">>)

\* the text of the test compilation file
testCode(files, dsk) ==
  Join(extractIncludes(files, dsk)) \o <<"\n", "\n">> \o combineCode(files, dsk)

(***************************************************************************)
(* analyzeCode: the parsers of the tool outputs                            *)
(***************************************************************************)

\* the length of the longest run of characters of the set from position p on
RECURSIVE RunLen(_, _, _)
RunLen(s, p, set) ==
  IF p <= Len(s) /\ s[p] \in set THEN 1 + RunLen(s, p + 1, set) ELSE 0

\* the length of the longest run of characters outside the set from p on
RECURSIVE RunUntil(_, _, _)
RunUntil(s, p, stop) ==
  IF p <= Len(s) /\ s[p] \notin stop THEN 1 + RunUntil(s, p + 1, stop) ELSE 0

\* the position after the longest run of characters of the set from p on
Skip(s, p, set) == p + RunLen(s, p, set)

\* the position after the longest run of characters outside the set
SkipTo(s, p, stop) == p + RunUntil(s, p, stop)

\* s has the text t at position p
HasAt(s, p, t) ==
  p + Len(t) - 1 <= Len(s) /\ SubSeq(s, p, p + Len(t) - 1) = t

\* parseInt of a string of digits
RECURSIVE parseInt(_)
parseInt(ds) ==
  IF Len(ds) = 0 THEN 0
  ELSE 10 * parseInt(SubSeq(ds, 1, Len(ds) - 1))
       + (CHOOSE n \in 0..9 :
            <<"0", "1", "2", "3", "4", "5", "6", "7", "8", "9">>[n + 1]
              = ds[Len(ds)])

\* the largest element of a non-empty set of numbers
Largest(set) == CHOOSE n \in set : \A m \in set : m <= n

NoMatch == [found |-> FALSE]

\* a match of one of the patterns: the head with the message and the
\* position of the last character
Matched(head, message, last) ==
  [found |-> TRUE, file |-> head.file, line |-> head.line, col |-> head.col,
   severity |-> head.severity, message |-> message, last |-> last]

\* the positions where the .+ of \s*(.+) can start when \s* starts at m: \s*
\* takes the white space it can and gives back what .+ needs, and . matches
\* no line terminator
MessageStarts(s, m) ==
  { k \in m..Skip(s, m, WhiteSpace) :
      k <= Len(s) /\ s[k] \notin LineTerminator }

\* the head followed by \s*(.+), the message starting at position first
WithMessageFrom(s, head, first) ==
  Matched(head, SubSeq(s, first, SkipTo(s, first, LineTerminator) - 1),
          SkipTo(s, first, LineTerminator) - 1)

\* the head followed by \s*(.+)
WithMessage(s, head) ==
  IF head.found /\ MessageStarts(s, head.after) # {}
  THEN WithMessageFrom(s, head, Largest(MessageStarts(s, head.after)))
  ELSE NoMatch

\* ([^:]+):(\d+):(\d+):\s*(error|warning): matched at position p: the
\* positions of its three colons and of the severity word
FileColon(s, p) == SkipTo(s, p, {":"})

LineColon(s, p) == Skip(s, FileColon(s, p) + 1, Digit)

ColumnColon(s, p) == Skip(s, LineColon(s, p) + 1, Digit)

SeverityAt(s, p) == Skip(s, ColumnColon(s, p) + 1, WhiteSpace)

\* the groups of the head, and the position after its last colon
DiagnosticHead(s, p) ==
  IF /\ FileColon(s, p) > p
     /\ HasAt(s, FileColon(s, p), <<":">>)
     /\ LineColon(s, p) > FileColon(s, p) + 1
     /\ HasAt(s, LineColon(s, p), <<":">>)
     /\ ColumnColon(s, p) > LineColon(s, p) + 1
     /\ HasAt(s, ColumnColon(s, p), <<":">>)
     /\ \/ HasAt(s, SeverityAt(s, p), <<"e", "r", "r", "o", "r", ":">>)
        \/ HasAt(s, SeverityAt(s, p), <<"w", "a", "r", "n", "i", "n", "g", ":">>)
  THEN [found |-> TRUE,
        file |-> SubSeq(s, p, FileColon(s, p) - 1),
        line |-> SubSeq(s, FileColon(s, p) + 1, LineColon(s, p) - 1),
        col |-> SubSeq(s, LineColon(s, p) + 1, ColumnColon(s, p) - 1),
        severity |-> IF HasAt(s, SeverityAt(s, p), <<"e", "r", "r", "o", "r", ":">>)
                     THEN <<"e", "r", "r", "o", "r">> ELSE <<"w", "a", "r", "n", "i", "n", "g">>,
        after |-> IF HasAt(s, SeverityAt(s, p), <<"e", "r", "r", "o", "r", ":">>)
                  THEN SeverityAt(s, p) + 6 ELSE SeverityAt(s, p) + 8]
  ELSE NoMatch

\* /([^:]+):(\d+):(\d+):\s*(error|warning):\s*(.+)/ matched at position p
DiagnosticAt(s, p) == WithMessage(s, DiagnosticHead(s, p))

\* the matches errorRegex.exec finds in turn, from position p on
RECURSIVE Diagnostics(_, _)
Diagnostics(s, p) ==
  LET m == DiagnosticAt(s, p)
  IN  IF p > Len(s) THEN <<>>
      ELSE IF ~m.found THEN Diagnostics(s, p + 1)
      ELSE <<m>> \o Diagnostics(s, m.last + 1)

\* line.replace(/error:\s*/, '')
RemoveErrorWord(line) ==
  LET i == IndexOf(line, <<"e", "r", "r", "o", "r", ":">>, 1)
  IN  IF i = 0 THEN line
      ELSE SubSeq(line, 1, i - 1) \o Drop(line, Skip(line, i + 6, WhiteSpace))

\* the Issues of the branch "Also catch generic errors"
GenericErrors(output) ==
  LET HasError(l) == Includes(l, <<"e", "r", "r", "o", "r", ":">>)
      lines == SelectSeq(Split(output), HasError)
  IN  [k \in 1..Len(lines) |->
         Issue(<<"u", "n", "k", "n", "o", "w", "n">>, 0, 0, Trim(RemoveErrorWord(lines[k])),
               "compilation", "error")]

\* /\[([^:]+):(\d+)\]:\s*\((\w+)\)\s*(.+)/ matched at position p: the
\* positions of the colon, of the closing bracket and of the parentheses
BracketColon(s, p) == SkipTo(s, p + 1, {":"})

BracketEnd(s, p) == Skip(s, BracketColon(s, p) + 1, Digit)

ParenAt(s, p) == Skip(s, BracketEnd(s, p) + 2, WhiteSpace)

ParenEnd(s, p) == Skip(s, ParenAt(s, p) + 1, TagChar)

\* the groups of [file:line]: (severity), and the position after it
CppcheckHead(s, p) ==
  IF /\ HasAt(s, p, <<"[">>)
     /\ BracketColon(s, p) > p + 1
     /\ HasAt(s, BracketColon(s, p), <<":">>)
     /\ BracketEnd(s, p) > BracketColon(s, p) + 1
     /\ HasAt(s, BracketEnd(s, p), <<"]", ":">>)
     /\ HasAt(s, ParenAt(s, p), <<"(">>)
     /\ ParenEnd(s, p) > ParenAt(s, p) + 1
     /\ HasAt(s, ParenEnd(s, p), <<")">>)
  THEN [found |-> TRUE,
        file |-> SubSeq(s, p + 1, BracketColon(s, p) - 1),
        line |-> SubSeq(s, BracketColon(s, p) + 1, BracketEnd(s, p) - 1),
        col |-> <<>>,
        severity |-> SubSeq(s, ParenAt(s, p) + 1, ParenEnd(s, p) - 1),
        after |-> ParenEnd(s, p) + 1]
  ELSE NoMatch

CppcheckAt(s, p) == WithMessage(s, CppcheckHead(s, p))

\* the matches regex.exec finds in turn in the output of cppcheck
RECURSIVE CppcheckMatches(_, _)
CppcheckMatches(s, p) ==
  LET m == CppcheckAt(s, p)
  IN  IF p > Len(s) THEN <<>>
      ELSE IF ~m.found THEN CppcheckMatches(s, p + 1)
      ELSE <<m>> \o CppcheckMatches(s, m.last + 1)

\* \s*(.+?)\s*\[(.+?)\] matched with \s* starting at position m: the ways to
\* match, each as the first and the last position of the message and the
\* position of the closing bracket
CheckedWays(s, m) ==
  { t \in (m..Skip(s, m, WhiteSpace)) \X (m..Len(s)) \X (m..Len(s)) :
      /\ t[1] <= t[2]
      /\ \A j \in t[1]..t[2] : s[j] \notin LineTerminator
      /\ HasAt(s, Skip(s, t[2] + 1, WhiteSpace), <<"[">>)
      /\ Skip(s, t[2] + 1, WhiteSpace) + 1 < t[3]
      /\ \A j \in (Skip(s, t[2] + 1, WhiteSpace) + 1)..(t[3] - 1) :
           s[j] \notin LineTerminator
      /\ s[t[3]] = "]" }

\* the way the backtracking finds first: the first \s* as long as can be,
\* then the message as short as can be, then the check name as short as can be
FirstWay(ways) ==
  CHOOSE t \in ways : \A u \in ways :
    \/ t[1] > u[1]
    \/ t[1] = u[1] /\ t[2] < u[2]
    \/ t[1] = u[1] /\ t[2] = u[2] /\ t[3] <= u[3]

\* the head followed by the message and the check name of the way t: the
\* message of the Issue is `${message.trim()} [${check}]`
WithCheck(s, head, t) ==
  Matched(head,
          Trim(SubSeq(s, t[1], t[2])) \o <<" ", "[">>
            \o SubSeq(s, Skip(s, t[2] + 1, WhiteSpace) + 1, t[3] - 1)
            \o <<"]">>,
          t[3])

\* /([^:]+):(\d+):(\d+):\s*(warning|error):\s*(.+?)\s*\[(.+?)\]/ at position p
ClangTidyFrom(s, head) ==
  IF head.found /\ CheckedWays(s, head.after) # {}
  THEN WithCheck(s, head, FirstWay(CheckedWays(s, head.after)))
  ELSE NoMatch

ClangTidyAt(s, p) == ClangTidyFrom(s, DiagnosticHead(s, p))

\* the matches regex.exec finds in turn in the output of clang-tidy
RECURSIVE ClangTidyMatches(_, _)
ClangTidyMatches(s, p) ==
  LET m == ClangTidyAt(s, p)
  IN  IF p > Len(s) THEN <<>>
      ELSE IF ~m.found THEN ClangTidyMatches(s, p + 1)
      ELSE <<m>> \o ClangTidyMatches(s, m.last + 1)

\* the matches with message.trim() for the message
Trimmed(found) ==
  [k \in 1..Len(found) |-> [found[k] EXCEPT !.message = Trim(@)]]

\* the Issue built from a match of one of the parsers
Parsed(m, type, severity) ==
  Issue(Basename(m.file), parseInt(m.line), parseInt(m.col), m.message,
        type, severity)

\* the matches whose severity word is error (or those whose word is not),
\* as Issues
IssuesOf(found, type, wantErrors) ==
  LET Wanted(m) == (m.severity = <<"e", "r", "r", "o", "r">>) = wantErrors
  IN  [k \in 1..Len(SelectSeq(found, Wanted)) |->
         Parsed(SelectSeq(found, Wanted)[k], type,
                IF wantErrors THEN "error" ELSE "warning")]

(***************************************************************************)
(* analyzeCode: the external tools and the inputs                          *)
(***************************************************************************)

\* null, for a text
Null == <<"<null>">>

\* !text for a text or null
Falsy(text) == text = Null \/ text = <<>>

\* what spawnSync returns when the binary is missing: no status, no output
Unavailable ==
  [status |-> "null", stdout |-> Null, stderr |-> Null, error |-> "ENOENT"]

\* what spawnSync returns when the timeout kills the tool: no status, and the
\* output the tool had written by then
TimedOut(out, err) ==
  [status |-> "null", stdout |-> out, stderr |-> err, error |-> "ETIMEDOUT"]

\* what spawnSync returns when the tool has exited
Exited(status, out, err) ==
  [status |-> status, stdout |-> out, stderr |-> err, error |-> "none"]

\* no spawnSync result: the tool was not run
NotRun ==
  [status |-> "none", stdout |-> Null, stderr |-> Null, error |-> "none"]

\* the diagnostics a compiler prints
CompilerOutputs ==
  { <<"d", "/", "_", "_", "t", "e", "s", "t", "_", "c", "o", "m", "p", "i", "l", "e", ".", "c", ":", "2", ":", "1", ":", " ", "e", "r", "r", "o", "r", ":", " ", "e", "\n", "d", "/", "_", "_", "t", "e", "s", "t", "_", "c", "o", "m", "p", "i", "l", "e", ".", "c", ":", "3", ":", "1", ":", " ", "w", "a", "r", "n", "i", "n", "g", ":", " ", "v">>,
    <<"d", "/", "_", "_", "t", "e", "s", "t", "_", "c", "o", "m", "p", "i", "l", "e", ".", "c", ":", "1", "0", ":", "2", ":", " ", "w", "a", "r", "n", "i", "n", "g", ":", " ", "w", "\n", "c", "c", "1", ":", " ", "e", "r", "r", "o", "r", ":", " ", "e">>,
    <<"c", "c", "1", ":", " ", "e", "r", "r", "o", "r", ":", " ", "e", "\n", "g", "c", "c", ":", " ", "f", "a", "t", "a", "l", " ", "e", "r", "r", "o", "r", ":", " ", "f">>,
    <<"c", "c", "1", ":", " ", "n", "o", "t", "e">> }

\* the results of the spawnSync of the compiler
CompilerResults ==
  { Unavailable,
    Exited("0", <<>>, <<>>),
    Exited("0", <<>>, <<"d", "/", "_", "_", "t", "e", "s", "t", "_", "c", "o", "m", "p", "i", "l", "e", ".", "c", ":", "1", ":", "1", ":", " ", "w", "a", "r", "n", "i", "n", "g", ":", " ", "w">>),
    Exited("1", <<"d", "/", "_", "_", "t", "e", "s", "t", "_", "c", "o", "m", "p", "i", "l", "e", ".", "c", ":", "3", ":", "1", ":", " ", "e", "r", "r", "o", "r", ":", " ", "o">>, <<>>),
    TimedOut(<<>>, <<>>),
    TimedOut(<<>>, <<"d", "/", "_", "_", "t", "e", "s", "t", "_", "c", "o", "m", "p", "i", "l", "e", ".", "c", ":", "2", ":", "1", ":", " ", "e", "r", "r", "o", "r", ":", " ", "e", "\n", "I", "n", " ", "f", "i", "l", "e">>) }
  \cup { Exited("1", <<>>, out) : out \in CompilerOutputs }

\* the results of the spawnSync of cppcheck
CppcheckResults ==
  { Unavailable,
    Exited("0", <<>>, <<"[", "d", "/", "a", ".", "c", ":", "1", "]", ":", " ", "(", "e", "r", "r", "o", "r", ")", " ", "e">>),
    Exited("0", <<"[", "d", "/", "a", ".", "c", ":", "2", "]", ":", " ", "(", "e", "r", "r", "o", "r", ")", " ", "e", "\n", "[", "d", "/", "a", ".", "c", ":", "1", "]", ":", " ", "(", "s", "t", "y", "l", "e", ")", " ", "s", "\n", "d", "/", "a", ".", "c", ":", "3", ":", " ", "x">>, <<>>),
    TimedOut(<<"[", "d", "/", "a", ".", "c", ":", "1", "]", ":", " ", "(", "w", "a", "r", "n", "i", "n", "g", ")", " ", "w", "\n", "[", "d", "/", "a", ".", "c", ":">>, <<>>) }

\* the results of the spawnSync of clang-tidy
ClangTidyResults ==
  { Unavailable,
    Exited("0", <<"d", "/", "a", ".", "c", ":", "2", ":", "1", ":", " ", "w", "a", "r", "n", "i", "n", "g", ":", " ", "w", " ", "[", "c", "]", "\n", "1", " ", "w", "a", "r", "n", "i", "n", "g", " ", "g", "e", "n", "e", "r", "a", "t", "e", "d", ".">>, <<>>),
    Exited("1", <<"d", "/", "a", ".", "c", ":", "1", ":", "2", ":", " ", "e", "r", "r", "o", "r", ":", " ", "e", " ", "[", "c", "]">>, <<"E", "r", "r", "o", "r", " ", "w", "h", "i", "l", "e", " ", "p", "r", "o", "c", "e", "s", "s", "i", "n", "g", " ", "d", "/", "a", ".", "c", ".">>) }

\* the name of the test compilation file and of the object file
TestFile == "__test_compile.c"

ObjFile == "__test_compile.o"

\* the directories analyzeCode runs against
AnalysisDirs ==
  { ("a.c" :> <<"x", ";">>),
    ("a.c" :> <<"f", "(", "\n", "g", "[", "\n", "i", "n", "t", " ", "x", ";", "\n", "i", "n", "t", " ", "y", ";">>) @@ ("b.h" :> <<"i", "n", "t", " ", "y", ";", "\n", "g", "[">>),
    ("b.h" :> <<"i", "n", "t", " ", "y", ";">>) @@ ("r.md" :> <<"t">>),
    ("a.c" :> <<"#", "i", "n", "c", "l", "u", "d", "e", " ", "<", "a", ".", "h", ">", "\n", "v", "o", "l", "a", "t", "i", "l", "e", " ", "i", "n", "t", " ", "*", "p", ";">>) @@ (TestFile :> <<"o", "l", "d">>) }

\* the files argument of analyzeCode when the caller passes none
NoFiles == << <<"<null>">> >>

\* the files arguments of analyzeCode for a directory
FileArgs(dsk) ==
  {NoFiles} \cup
  (IF "b.h" \in DOMAIN dsk /\ "a.c" \in DOMAIN dsk
   THEN { <<<<"a", ".", "c">>, <<"z", ".", "c">>>> } ELSE {}) \cup
  (IF dsk = NoDir THEN { <<<<"a", ".", "c">>>> } ELSE {})

\* the option objects a caller of analyzeCode passes to the constructor
GivenAnalysisOptions ==
  { g \in UNION { [K -> {"false", "null"}] :
                    K \in SUBSET {"useCompiler", "useStaticAnalysis"} } :
      /\ "useCompiler" \in DOMAIN g => g["useCompiler"] = "false"
      /\ "useStaticAnalysis" \in DOMAIN g => g["useStaticAnalysis"] = "null" }

\* groupByType(issues): the number of Issues of each type that occurs
groupByType(issues) ==
  LET types == { issues[i].type : i \in 1..Len(issues) }
  IN  [t \in types |->
         Cardinality({ i \in 1..Len(issues) : issues[i].type = t })]

\* getSummary()
getSummary(errs, warns, fxs) ==
  [totalErrors |-> Len(errs), totalWarnings |-> Len(warns),
   totalFixes |-> Len(fxs), errorTypes |-> groupByType(errs),
   warningTypes |-> groupByType(warns)]

\* the Result analyzeCode returns
Result(errs, warns, fxs) ==
  [errors |-> errs, warnings |-> warns, fixes |-> fxs,
   summary |-> getSummary(errs, warns, fxs)]

(***************************************************************************)
(* analyzeCode: the Issues of the tool outputs                             *)
(***************************************************************************)

\* result.stderr || result.stdout || ''
Output(r) ==
  IF ~Falsy(r.stderr) THEN r.stderr
  ELSE IF ~Falsy(r.stdout) THEN r.stdout
  ELSE <<>>

\* the texts the model hands to the parsers
CompilerTexts == { Output(r) : r \in CompilerResults }

CppcheckTexts == { r.stdout : r \in CppcheckResults } \ {Null}

ClangTidyTexts == { r.stdout : r \in ClangTidyResults } \ {Null}

\* the matches of errorRegex in each text of the model, computed once
CompilerMatches == [out \in CompilerTexts |-> Trimmed(Diagnostics(out, 1))]

\* the generic errors of each text of the model, computed once
GenericMatches == [out \in CompilerTexts |-> GenericErrors(out)]

\* the matches of the pattern of parseCppcheckOutput in each text
CppcheckFound == [out \in CppcheckTexts |-> Trimmed(CppcheckMatches(out, 1))]

\* the matches of the pattern of parseClangTidyOutput in each text
ClangTidyFound == [out \in ClangTidyTexts |-> ClangTidyMatches(out, 1)]

\* a generic branch that does not look at this.errors
WithGeneric_Always(output, errs, warns) ==
  [errors |-> IF Includes(output, <<"e", "r", "r", "o", "r", ":">>)
              THEN errs \o GenericMatches[output]
              ELSE errs,
   warnings |-> warns]

\* the branch "Also catch generic errors" of parseCompilerErrors
WithGeneric(output, errs, warns) ==
  [errors |-> IF Len(errs) = 0 /\ Includes(output, <<"e", "r", "r", "o", "r", ":">>)
              THEN errs \o GenericMatches[output]
              ELSE errs,
   warnings |-> warns]

\* parseCompilerErrors(output, files): this.errors and this.warnings after it
parseCompilerErrors(output, errs, warns) ==
  WithGeneric(output,
              errs \o IssuesOf(CompilerMatches[output], "compilation", TRUE),
              warns \o IssuesOf(CompilerMatches[output], "compilation", FALSE))

\* a parser that pushes every Issue to this.errors
parseCppcheckOutput_AllToErrors(output, errs, warns) ==
  [errors |->
     errs \o IssuesOf(CppcheckFound[output], "static_analysis", TRUE)
          \o IssuesOf(CppcheckFound[output], "static_analysis", FALSE),
   warnings |-> warns]

\* parseCppcheckOutput(output, files): this.errors and this.warnings after it
parseCppcheckOutput(output, errs, warns) ==
  [errors |->
     errs \o IssuesOf(CppcheckFound[output], "static_analysis", TRUE),
   warnings |->
     warns \o IssuesOf(CppcheckFound[output], "static_analysis", FALSE)]

\* parseClangTidyOutput(output, files): this.errors and this.warnings after it
parseClangTidyOutput(output, errs, warns) ==
  [errors |->
     errs \o IssuesOf(ClangTidyFound[output], "static_analysis", TRUE),
   warnings |->
     warns \o IssuesOf(ClangTidyFound[output], "static_analysis", FALSE)]

(***************************************************************************)
(* analyzeCode                                                             *)
(***************************************************************************)

\* the variables of getAIFixes that analyzeCode leaves alone
aiRest ==
  <<options, axios, errors, errIdx, modelIdx, fixes, returned, calls,
    lastCall, aborted>>

\* the variables of applyFixes that analyzeCode leaves alone
applyRest ==
  <<fixArg, fixIdx, fileMap, applied, writeIdx, writes, runs, firstDisk>>

\* the variables of the drivers and of the sanitizer
otherRest == <<drvVars, sanVars>>

\* an analyzeCode that keeps the errors it holds
Accumulators_ErrorsKept ==
  [errors |-> thisErrors, warnings |-> <<>>, fixes |-> <<>>]

\* an analyzeCode that keeps what the accumulators hold
Accumulators_Kept ==
  [errors |-> thisErrors, warnings |-> thisWarnings, fixes |-> thisFixes]

\* this.errors, this.warnings and this.fixes as analyzeCode starts with them
Accumulators == [errors |-> <<>>, warnings |-> <<>>, fixes |-> <<>>]

\* the elements a list has gained
New(before, after) == SubSeq(after, Len(before) + 1, Len(after))

\* a last pass whose Issues go in front of the warnings
Finish_QualityFirst(cf, dsk, errs, warns, psh) ==
  LET quality == checkCodeQuality(cf, dsk)
  IN  [pc |-> "an_done", errors |-> errs, warnings |-> quality \o warns,
       pushed |-> psh \o quality]

\* the last pass, checkCodeQuality, after which analyzeCode returns
Finish(cf, dsk, errs, warns, psh) ==
  LET quality == checkCodeQuality(cf, dsk)
  IN  [pc |-> "an_done", errors |-> errs, warnings |-> warns \o quality,
       pushed |-> psh \o quality]

\* after the compilation pass: runStaticAnalysis when it is enabled and there
\* is a .c or .cpp file to hand to the tools
AfterCompilation(cf, dsk, errs, warns, psh) ==
  IF Truthy(options.useStaticAnalysis) /\ cFiles(cf) # <<>>
  THEN [pc |-> "an_cppcheck", errors |-> errs, warnings |-> warns,
        pushed |-> psh]
  ELSE Finish(cf, dsk, errs, warns, psh)

\* a pipeline whose compilation pass takes no notice of useCompiler
AfterSyntax_CompilerAlways(cf, dsk, errs, warns, psh) ==
  IF cFiles(cf) # <<>> /\ dsk # NoDir
  THEN [pc |-> "an_compile", errors |-> errs, warnings |-> warns,
        pushed |-> psh]
  ELSE AfterCompilation(cf, dsk, errs, warns, psh)

\* after checkSyntax: checkCompilation when it is enabled and there is a .c
\* or .cpp file to compile; in a directory that does not exist writeFileSync
\* throws into the catch of checkCompilation before the compiler is run
AfterSyntax(cf, dsk, errs, warns, psh) ==
  IF Truthy(options.useCompiler) /\ cFiles(cf) # <<>> /\ dsk # NoDir
  THEN [pc |-> "an_compile", errors |-> errs, warnings |-> warns,
        pushed |-> psh]
  ELSE AfterCompilation(cf, dsk, errs, warns, psh)

\* the passes have got to the position st.pc
Record(st, fxs) ==
  /\ pc' = st.pc
  /\ thisErrors' = st.errors
  /\ thisWarnings' = st.warnings
  /\ pushed' = st.pushed
  /\ results' = IF st.pc = "an_done"
                THEN Append(results, Result(st.errors, st.warnings, fxs))
                ELSE results

\* analyzeCode when readdirSync throws: the accumulators are reset, the
\* promise rejects and no Result is returned
ReaddirThrows(arg) ==
  /\ filesArg' = arg
  /\ thisErrors' = Accumulators.errors
  /\ thisWarnings' = Accumulators.warnings
  /\ thisFixes' = Accumulators.fixes
  /\ pushed' = <<>>
  /\ starts' = Append(starts, disk)
  /\ pc' = "an_failed"
  /\ UNCHANGED <<codeFiles, results, disk, tools, aiRest, applyRest,
                 otherRest>>

\* analyzeCode up to its first spawnSync, or to its return when no tool runs
PassesFrom(arg) ==
  LET names == IF arg = NoFiles THEN SourceFiles(disk) ELSE arg
      cf == [i \in 1..Len(names) |-> PathJoin(names[i])]
      syntax == checkSyntax(cf, disk)
      st == AfterSyntax(cf, disk, Accumulators.errors \o syntax,
                        Accumulators.warnings, syntax)
  IN  /\ filesArg' = arg
      /\ codeFiles' = cf
      /\ thisFixes' = Accumulators.fixes
      /\ starts' = Append(starts, disk)
      /\ disk' = IF st.pc = "an_compile"
                 THEN [f \in DOMAIN disk \cup {TestFile} |->
                         IF f = TestFile THEN testCode(cf, disk) ELSE disk[f]]
                 ELSE disk
      /\ Record(st, Accumulators.fixes)
      /\ UNCHANGED <<tools, aiRest, applyRest, otherRest>>

\* analyzeCode up to its first spawnSync, to its return when no tool runs, or
\* to the throw of readdirSync
EnterAnalysis(arg) ==
  IF arg = NoFiles /\ disk = NoDir THEN ReaddirThrows(arg) ELSE PassesFrom(arg)

\* analyzeCode(codeDir, files) is called
AnalyzeCode(arg) ==
  /\ pc = "idle"
  /\ EnterAnalysis(arg)

\* analyzeCode is called once more, with the files argument of the call
\* before; the tools return what they returned then
AnalyzeCodeAgain ==
  /\ pc \in {"an_done", "ai_done", "apply_done"}
  /\ Len(starts) = 1
  /\ EnterAnalysis(filesArg)

\* a compilation pass that reports the missing compiler as an Issue
compiled_ReportsMissing(r, errs, warns) ==
  IF r.error = "ENOENT"
  THEN [errors |->
          Append(errs, Issue(<<"u", "n", "k", "n", "o", "w", "n">>, 0, 0, <<"compiler not found">>,
                             "compilation", "error")),
        warnings |-> warns]
  ELSE IF r.status # "0" THEN parseCompilerErrors(Output(r), errs, warns)
  ELSE [errors |-> errs, warnings |-> warns]

\* checkCompilation after spawnSync: this.errors and this.warnings
compiled(r, errs, warns) ==
  IF r.status # "0" THEN parseCompilerErrors(Output(r), errs, warns)
  ELSE [errors |-> errs, warnings |-> warns]

\* the spawnSync of the compiler returns; the test files are removed
CompilerReturns(r) ==
  /\ pc = "an_compile"
  /\ Len(starts) = 1 \/ r = tools.compiler
  /\ LET parsed == compiled(r, thisErrors, thisWarnings)
         cleaned == [f \in DOMAIN disk \ {TestFile, ObjFile} |-> disk[f]]
         st == AfterCompilation(codeFiles, cleaned, parsed.errors,
                                parsed.warnings,
                                pushed \o New(thisErrors, parsed.errors)
                                       \o New(thisWarnings, parsed.warnings))
     IN  /\ disk' = cleaned
         /\ Record(st, thisFixes)
  /\ tools' = IF Len(starts) = 1 THEN [tools EXCEPT !.compiler = r] ELSE tools
  /\ UNCHANGED <<thisFixes, filesArg, codeFiles, starts, aiRest, applyRest,
                 otherRest>>

\* the spawnSync of cppcheck returns
CppcheckReturns(r) ==
  /\ pc = "an_cppcheck"
  /\ Len(starts) = 1 \/ r = tools.cppcheck
  /\ LET parsed ==
           IF ~Falsy(r.stdout)
           THEN parseCppcheckOutput(r.stdout, thisErrors, thisWarnings)
           ELSE [errors |-> thisErrors, warnings |-> thisWarnings]
     IN  Record([pc |-> "an_clangtidy", errors |-> parsed.errors,
                 warnings |-> parsed.warnings,
                 pushed |-> pushed \o New(thisErrors, parsed.errors)
                                   \o New(thisWarnings, parsed.warnings)],
                thisFixes)
  /\ tools' = IF Len(starts) = 1 THEN [tools EXCEPT !.cppcheck = r] ELSE tools
  /\ UNCHANGED <<thisFixes, filesArg, codeFiles, starts, disk, aiRest,
                 applyRest, otherRest>>

\* the spawnSync of clang-tidy returns
ClangTidyReturns(r) ==
  /\ pc = "an_clangtidy"
  /\ Len(starts) = 1 \/ r = tools.clangTidy
  /\ LET parsed ==
           IF ~Falsy(r.stdout)
           THEN parseClangTidyOutput(r.stdout, thisErrors, thisWarnings)
           ELSE [errors |-> thisErrors, warnings |-> thisWarnings]
     IN  Record(Finish(codeFiles, disk, parsed.errors, parsed.warnings,
                       pushed \o New(thisErrors, parsed.errors)
                              \o New(thisWarnings, parsed.warnings)),
                thisFixes)
  /\ tools' = IF Len(starts) = 1 THEN [tools EXCEPT !.clangTidy = r] ELSE tools
  /\ UNCHANGED <<thisFixes, filesArg, codeFiles, starts, disk, aiRest,
                 applyRest, otherRest>>

\* the answers of the inference service between two analyses
SessionData ==
  { Data("string", CodeX, NotAString, NotAString, NotAString, NotAString),
    Data("string", <<>>, NotAString, NotAString, NotAString, NotAString) }

\* getAIFixes(errors, codeDir) is called after analyzeCode has returned
FixesAfterAnalysis ==
  /\ pc = "an_done"
  /\ Len(starts) = 1
  /\ EnterFixes(1)

\* the fixes a driver applies between two analyses
AnalysisFixes ==
  { << [error |-> [file |-> "a.c", line |-> 1], suggestion |-> <<"x", ";">>] >> }

\* applyFixes(codeDir, fixes) is called after analyzeCode has returned
ApplyAfterAnalysis(list) ==
  /\ pc = "an_done"
  /\ Len(starts) = 1
  /\ EnterApply(list)

(***************************************************************************)
(* sanitizeFixSuggestion: the raw responses                                *)
(***************************************************************************)

\* the most lines of a raw response
MaxRawLines == 2

\* lines of C code a model answers with
CodeLines ==
  { <<"x", ";">>, <<" ", " ", "y", ";">>, <<"#", "d", "e", "f", "i", "n", "e", " ", "A", " ", "1">>, <<"0", "x", "1", "F", ",", " ", "2", ",">>, <<"3", " ", "+", " ", "n", ";">> }

\* lines a model numbers or annotates
MarkedLines ==
  { <<"1", "2", ":", " ", "y", ";">>, <<"7", ":">>, <<"N", "o", "t", "e", ":", " ", "k">>, <<"/", "/", " ", "n", "o", "t", "e", ":", " ", "k">>, <<">", ">", ">", " ", "z">>, <<"1", ":", " ", "N", "o", "t", "e", ":", " ", "k">>,
    <<"2", ":", " ", ">", ">", ">", " ", "z">>, <<" ">> }

\* the language tags of a fence
Tags == { <<>>, <<"c">>, <<"c", "+", "+">> }

\* the sequences of 1 to n elements of a set
RECURSIVE SeqsUpTo(_, _)
SeqsUpTo(set, n) ==
  IF n = 0 THEN {}
  ELSE { <<x>> : x \in set } \cup SeqsUpTo(set, n - 1)
       \cup { Append(q, x) : q \in SeqsUpTo(set, n - 1), x \in set }

\* a response of lines without a fence
PlainInput(lines) == Join(lines)

\* a response with one fenced block, a language tag and a trailing text
FencedInput(tag, lines, trailer) ==
  Fence \o tag \o <<"\n">> \o Join(lines) \o <<"\n">> \o Fence \o trailer

\* the texts after a fenced block
Trailers == { <<>>, <<"\n", "N", "o", "t", "e", ":", " ", "k">> }

\* the raw arguments of sanitizeFixSuggestion
RawInputs ==
  { PlainInput(lines) :
      lines \in SeqsUpTo(CodeLines \cup MarkedLines, MaxRawLines) }
  \cup
  { FencedInput(t[1], t[2], t[3]) :
      t \in Tags \X SeqsUpTo(CodeLines, MaxRawLines) \X Trailers }

\* sanitizeFixSuggestion(raw) is called and returns
Sanitize ==
  /\ pc = "idle"
  /\ clean' = sanitizeFixSuggestion(raw)
  /\ pc' = "san_done"
  /\ UNCHANGED <<raw, aiVars, applyVars, anVars, drvVars>>

(***************************************************************************)
(* The drivers: the traceback CLI, POST /traceback and POST /upload        *)
(***************************************************************************)

Drivers == {"cli", "traceback", "upload"}

\* args.includes(flag)
HasFlag(a, flag) == \E i \in 1..Len(a) : a[i] = flag

\* a.indexOf(x): the first position of x counted from 0, or -1
indexOf(a, x) ==
  IF HasFlag(a, x)
  THEN (CHOOSE i \in 1..Len(a) :
          a[i] = x /\ \A j \in 1..(i - 1) : a[j] # x) - 1
  ELSE -1

\* a[j] for a position j counted from 0
ArgAt(a, j) == IF j + 1 \in 1..Len(a) THEN a[j + 1] ELSE "undefined"

\* args[args.indexOf('--model') + 1] || 'codellama:7b'
CliModel(a) ==
  IF Truthy(ArgAt(a, indexOf(a, "--model") + 1))
  THEN ArgAt(a, indexOf(a, "--model") + 1)
  ELSE OtherModel

\* the command lines of the CLI: the code directory, then the options
CliArgs ==
  { <<"d">>, <<"d", "--fix">>, <<"d", "--fix", "--model", "m">>,
    <<"d", "--model">>, <<"d", "--no-ai", "--fix">>,
    <<"d", "--fix", "--no-compile", "--no-static">> }

\* the options of the body of POST /traceback that are set: autoFix to true,
\* the others to false
TracebackBodies ==
  { <<>>, <<"autoFix">>, <<"autoFix", "useAI">>,
    <<"autoFix", "useCompiler", "useStaticAnalysis">> }

\* the query parameters of POST /upload that are 'true'
UploadQueries ==
  { <<>>, <<"no-ai">>, <<"no-compile", "no-static">> }

\* what a driver is started with
DriverArgs(d) ==
  CASE d = "cli" -> CliArgs
    [] d = "traceback" -> TracebackBodies
    [] d = "upload" -> UploadQueries

ToBoolean(b) == IF b THEN "true" ELSE "false"

\* the options object the driver passes to new TracebackSystem
DriverOptions(d, a, ax) ==
  CASE d = "cli" ->
         [useCompiler |-> ToBoolean(~HasFlag(a, "--no-compile")),
          useStaticAnalysis |-> ToBoolean(~HasFlag(a, "--no-static")),
          useAI |-> ToBoolean(~HasFlag(a, "--no-ai")),
          aiModel |-> CliModel(a)]
    [] d = "traceback" ->
         [useCompiler |-> ToBoolean(~HasFlag(a, "useCompiler")),
          useStaticAnalysis |-> ToBoolean(~HasFlag(a, "useStaticAnalysis")),
          useAI |-> ToBoolean(~HasFlag(a, "useAI") /\ ax # "null"),
          aiModel |-> OtherModel]
    [] d = "upload" ->
         [useCompiler |-> ToBoolean(~HasFlag(a, "no-compile")),
          useStaticAnalysis |-> ToBoolean(~HasFlag(a, "no-static")),
          useAI |-> ToBoolean(~HasFlag(a, "no-ai") /\ ax # "null"),
          aiModel |-> DefaultModel]

\* the directories a driver is pointed at
DriverDirs ==
  { d \in AnalysisDirs : "a.c" \in DOMAIN d /\ TestFile \notin DOMAIN d }

\* what the tools return in a run of a driver
DriverCompilerResults ==
  { Unavailable,
    Exited("1", <<"d", "/", "_", "_", "t", "e", "s", "t", "_", "c", "o", "m", "p", "i", "l", "e", ".", "c", ":", "3", ":", "1", ":", " ", "e", "r", "r", "o", "r", ":", " ", "o">>, <<>>) }

\* the guards of the CLI and of POST /traceback: the directory must exist
DriverRejects ==
  /\ pc = "idle"
  /\ driver \in {"cli", "traceback"}
  /\ disk = NoDir
  /\ pc' = "drv_done"
  /\ UNCHANGED <<aiVars, applyVars, anVars, drvVars, sanVars>>

\* the driver calls analyzeCode: POST /upload with the generated files, the
\* others with the directory only
DriverAnalyzes ==
  /\ pc = "idle"
  /\ driver \in Drivers
  /\ disk # NoDir
  /\ EnterAnalysis(IF driver = "upload" THEN SourceFiles(disk) ELSE NoFiles)

\* analyzeCode has returned its Result to the driver
DriverTakesResult ==
  /\ pc = "an_done"
  /\ driver \in Drivers
  /\ Len(results) = 1
  /\ report' = results[Len(results)]
  /\ pc' = "drv_analyzed"
  /\ UNCHANGED <<aiVars, applyVars, anVars, driver, args, sanVars>>

\* the condition under which the driver calls getAIFixes
WantsFixes ==
  /\ Len(report.errors) > 0
  /\ CASE driver = "cli" -> ~HasFlag(args, "--no-ai")
       [] driver = "traceback" -> ~HasFlag(args, "useAI") /\ axios # "null"
       [] driver = "upload" -> ~HasFlag(args, "no-ai") /\ axios # "null"

\* the driver calls getAIFixes(results.errors, files)
DriverRequestsFixes ==
  /\ pc = "drv_analyzed"
  /\ WantsFixes
  /\ EnterFixes(Min(Len(report.errors), MaxErrors))

\* the driver calls neither getAIFixes nor, in POST /upload, applyFixes
DriverSkipsFixes ==
  /\ pc = "drv_analyzed"
  /\ ~WantsFixes
  /\ pc' = "drv_fixed"
  /\ UNCHANGED <<aiVars, applyVars, anVars, drvVars, sanVars>>

\* results.fixes = traceback.fixes
DriverStoresFixes ==
  /\ pc = "ai_done"
  /\ driver \in Drivers
  /\ report' = [report EXCEPT !.fixes = thisFixes]
  /\ pc' = "drv_fixed"
  /\ UNCHANGED <<aiVars, applyVars, anVars, driver, args, sanVars>>

\* the condition under which the driver calls applyFixes
WantsApply ==
  /\ Len(report.fixes) > 0
  /\ CASE driver = "cli" -> HasFlag(args, "--fix")
       [] driver = "traceback" -> HasFlag(args, "autoFix")
       [] driver = "upload" -> TRUE

\* the driver calls applyFixes(codeDir, results.fixes)
DriverApplies ==
  /\ pc = "drv_fixed"
  /\ WantsApply
  /\ EnterApply(report.fixes)

\* the driver reports without applying a fix
DriverSkipsApply ==
  /\ pc = "drv_fixed"
  /\ ~WantsApply
  /\ pc' = "drv_done"
  /\ UNCHANGED <<aiVars, applyVars, anVars, drvVars, sanVars>>

\* the CLI, having applied a fix, calls analyzeCode(codeDir) again
DriverReanalyzes ==
  /\ pc = "apply_done"
  /\ driver = "cli"
  /\ Len(applied) > 0
  /\ EnterAnalysis(NoFiles)

\* applyFixes has returned and the driver reports: the CLI when nothing was
\* applied, POST /traceback and POST /upload always
DriverReports ==
  /\ pc = "apply_done"
  /\ driver \in Drivers
  /\ ~(driver = "cli" /\ Len(applied) > 0)
  /\ pc' = "drv_done"
  /\ UNCHANGED <<aiVars, applyVars, anVars, drvVars, sanVars>>

\* the second analysis of the CLI has returned and the process exits
DriverExits ==
  /\ pc = "an_done"
  /\ driver \in Drivers
  /\ Len(results) = 2
  /\ pc' = "drv_done"
  /\ UNCHANGED <<aiVars, applyVars, anVars, drvVars, sanVars>>

(***************************************************************************)
(* Specifications                                                          *)
(***************************************************************************)

\* the directory the repair suggestion engine runs against
SourceDir == [f \in {"a.c"} |-> <<"a", "\n", "b">>]

\* the directories the patch applier runs against
SourceDirs ==
  { [f \in {"b.c"} |-> <<"c">>] } \cup
  { [f \in {"a.c", "b.c"} |-> IF f = "a.c" THEN c ELSE <<"c">>] :
      c \in FileContents }

\* the driver holds no results object
NoReport == [none |-> TRUE]

InitLocals ==
  /\ thisFixes = <<>>
  /\ pc = "idle"
  /\ errors = <<>>
  /\ errIdx = 1
  /\ modelIdx = 1
  /\ fixes = <<>>
  /\ returned = <<>>
  /\ calls = [i \in 1..2 |-> 0]
  /\ lastCall = NoCall
  /\ aborted = FALSE
  /\ fixArg = <<>>
  /\ fixIdx = 1
  /\ fileMap = <<>>
  /\ applied = <<>>
  /\ writeIdx = 1
  /\ writes = [f \in FileNames |-> 0]
  /\ runs = 0
  /\ thisErrors = <<>>
  /\ thisWarnings = <<>>
  /\ filesArg = NoFiles
  /\ codeFiles = <<>>
  /\ tools = [compiler |-> NotRun, cppcheck |-> NotRun, clangTidy |-> NotRun]
  /\ pushed = <<>>
  /\ starts = <<>>
  /\ results = <<>>
  /\ report = NoReport
  /\ clean = <<>>

\* a TracebackSystem constructed with any options, before getAIFixes
InitFixes ==
  /\ options \in { constructor(g) : g \in GivenOptions }
  /\ axios \in {"loaded", "null"}
  /\ disk = SourceDir
  /\ firstDisk = SourceDir
  /\ InitLocals
  /\ driver = "none"
  /\ args = <<>>
  /\ raw = <<>>

NextFixes ==
  \/ \E n \in 0..MaxErrors : GetAIFixes(n)
  \/ \E data \in ResponseData : PostResolves(data)
  \/ \E e \in InferenceErrors : PostRejects(e)
  \/ ReturnFixes

SpecFixes == InitFixes /\ [][NextFixes]_vars

\* a TracebackSystem constructed with the defaults, before applyFixes
InitApply ==
  /\ options = constructor(<<>>)
  /\ axios = "loaded"
  /\ disk \in SourceDirs
  /\ firstDisk = disk
  /\ InitLocals
  /\ driver = "none"
  /\ args = <<>>
  /\ raw = <<>>

NextApply ==
  \/ \E list \in FixLists(MaxFixes) : ApplyFixes(list)
  \/ ApplyFixesAgain
  \/ ApplyFix
  \/ WriteFile

SpecApply == InitApply /\ [][NextApply]_vars

\* a TracebackSystem constructed with any analysis options, before analyzeCode
InitAnalyze ==
  /\ options \in { constructor(g) : g \in GivenAnalysisOptions }
  /\ axios = "loaded"
  /\ disk \in AnalysisDirs \cup {NoDir}
  /\ firstDisk = disk
  /\ InitLocals
  /\ driver = "none"
  /\ args = <<>>
  /\ raw = <<>>

NextAnalyze ==
  \/ \E arg \in FileArgs(disk) : AnalyzeCode(arg)
  \/ AnalyzeCodeAgain
  \/ \E r \in CompilerResults : CompilerReturns(r)
  \/ \E r \in CppcheckResults : CppcheckReturns(r)
  \/ \E r \in ClangTidyResults : ClangTidyReturns(r)
  \/ FixesAfterAnalysis
  \/ \E data \in SessionData : PostResolves(data)
  \/ ReturnFixes
  \/ \E list \in AnalysisFixes : ApplyAfterAnalysis(list)
  \/ ApplyFix
  \/ WriteFile

SpecAnalyze == InitAnalyze /\ [][NextAnalyze]_vars

\* a TracebackSystem before sanitizeFixSuggestion is called with a response
InitSanitize ==
  /\ options = constructor(<<>>)
  /\ axios = "loaded"
  /\ disk = SourceDir
  /\ firstDisk = SourceDir
  /\ InitLocals
  /\ driver = "none"
  /\ args = <<>>
  /\ raw \in RawInputs

NextSanitize == Sanitize

SpecSanitize == InitSanitize /\ [][NextSanitize]_vars

\* a driver at its start: its arguments are parsed and the TracebackSystem
\* is constructed from them
InitDrivers ==
  /\ driver \in Drivers
  /\ args \in DriverArgs(driver)
  /\ axios \in {"loaded", "null"}
  /\ options = constructor(DriverOptions(driver, args, axios))
  /\ disk \in DriverDirs \cup {NoDir}
  /\ disk = NoDir => driver # "upload"
  /\ firstDisk = disk
  /\ InitLocals
  /\ raw = <<>>

NextDrivers ==
  \/ DriverRejects
  \/ DriverAnalyzes
  \/ \E r \in DriverCompilerResults : CompilerReturns(r)
  \/ CppcheckReturns(Unavailable)
  \/ ClangTidyReturns(Unavailable)
  \/ DriverTakesResult
  \/ DriverRequestsFixes
  \/ DriverSkipsFixes
  \/ \E data \in SessionData : PostResolves(data)
  \/ ReturnFixes
  \/ DriverStoresFixes
  \/ DriverApplies
  \/ DriverSkipsApply
  \/ ApplyFix
  \/ WriteFile
  \/ DriverReanalyzes
  \/ DriverReports
  \/ DriverExits

SpecDrivers == InitDrivers /\ [][NextDrivers]_vars

Init == InitFixes \/ InitApply \/ InitAnalyze \/ InitSanitize \/ InitDrivers

Next == NextFixes \/ NextApply \/ NextAnalyze \/ NextSanitize \/ NextDrivers

Spec == Init /\ [][Next]_vars

(***************************************************************************)
(* Properties of getAIFixes (checked under SpecFixes)                      *)
(***************************************************************************)

\* the results of a call that the retry policy answers with the fallback
Retryable == {"resource_exhaustion", "timeout"}

\* the position in the supplied list of the error a Fix references
PositionOf(fix) == CHOOSE i \in 1..Len(errors) : errors[i] = fix.error

\* the state right after the primary call for an error failed with a
\* retryable signal: the fallback call for the same error is the next call
FallbackCallIsNext ==
  /\ pc = "ai_loop"
  /\ errIdx = lastCall.error
  /\ modelIdx = 2
  /\ Len(modelsToTry) = 2
  /\ modelsToTry[2] = fallbackModel

\* C1 as stated: in every configuration with a fallback model configured,
\* a primary call that fails with a resource-exhaustion or timeout signal is
\* followed by a call of the fallback model for the same error.
C1_FallbackWheneverConfigured ==
  (lastCall.attempt = 1 /\ lastCall.result \in Retryable
     /\ fallbackModel # "null")
    => FallbackCallIsNext

\* C1 amended: when a fallback model is configured and differs from the
\* primary model, a primary call that fails with a resource-exhaustion or
\* timeout signal is followed by exactly one further call for the same error,
\* against the fallback model: after that call the loop has left the error.
C1_FallbackWhenDistinct ==
  /\ (lastCall.attempt = 1 /\ lastCall.result \in Retryable
        /\ fallbackModel \notin {"null", primaryModel})
       => FallbackCallIsNext
  /\ lastCall.attempt = 2
       => /\ lastCall.model = fallbackModel
          /\ ~(pc = "ai_loop" /\ errIdx = lastCall.error)

C1_Witness ==
  /\ lastCall.attempt = 1
  /\ lastCall.result = "timeout"
  /\ fallbackModel \notin {"null", primaryModel}
  /\ FallbackCallIsNext

\* C2: after a call that fails with another signal than resource exhaustion
\* or timeout no further call is made (the loop is left), the Fixes produced
\* before the failure are the list that is returned, and getAIFixes returns.
C2_OtherFailureAborts ==
  lastCall.result = "other"
    => /\ aborted
       /\ pc \in {"ai_return", "ai_done"}
       /\ fixes = lastCall.fixesBefore
       /\ pc = "ai_done" => returned = lastCall.fixesBefore

C2_Witness ==
  /\ pc = "ai_done"
  /\ lastCall.result = "other"
  /\ lastCall.error < Len(Selected)
  /\ Len(returned) >= 1

\* C3: when the calls for an error fail only with resource-exhaustion or
\* timeout signals, no Fix is produced for that error and the batch is not
\* aborted. (The last call for an error is reached only through retryable
\* failures, so the calls of an error failed only that way exactly when the
\* last call did.)
C3_RetryableFailureNeverAborts ==
  lastCall.result \in Retryable
    => /\ ~aborted
       /\ fixes = lastCall.fixesBefore

\* C4 as stated: one call of getAIFixes makes at most 5 inference calls.
C4_AtMostFiveCalls == calls[1] + calls[2] <= FixLimit

\* C4 amended: one call of getAIFixes makes at most 5 calls of the primary
\* model and at most one call of the fallback model per primary call (at most
\* 10 calls in all), and no call of a fallback when none distinct from the
\* primary is configured, for any number of supplied errors.
C4_AtMostFivePrimaryCalls ==
  /\ calls[1] <= FixLimit
  /\ calls[2] <= calls[1]
  /\ Len(modelsToTry) = 1 => calls[2] = 0

C4_Witness ==
  /\ pc = "ai_done"
  /\ Len(errors) > FixLimit
  /\ calls[1] = FixLimit
  /\ calls[2] = FixLimit

\* C5: every Fix, pending or returned, references one of the first 5 errors
\* supplied, the Fixes are in the order of their errors with at most one Fix
\* per error, and no call is made for an error at position 6 or later.
C5_FirstFiveInOrder ==
  /\ \A k \in 1..Len(fixes) :
       /\ \E i \in 1..Min(FixLimit, Len(errors)) : errors[i] = fixes[k].error
       /\ k > 1 => PositionOf(fixes[k - 1]) < PositionOf(fixes[k])
  /\ pc = "ai_done" => returned = fixes
  /\ lastCall.error <= FixLimit
  /\ pc = "ai_loop" => errIdx <= FixLimit

C5_Witness ==
  /\ pc = "ai_done"
  /\ Len(errors) > FixLimit
  /\ Len(returned) = FixLimit

\* C6: a call of the fallback model directly follows the call of the primary
\* model for the same error, which failed with a resource-exhaustion or
\* timeout signal; and the primary model is called for an error only when no
\* call was made for that error before, so that an error gets one fallback
\* call at most.
C6_FallbackOnlyAfterRetryable ==
  [][ /\ calls'[2] > calls[2]
        => /\ lastCall.attempt = 1
           /\ lastCall.error = errIdx
           /\ lastCall.result \in Retryable
           /\ lastCall'.error = errIdx
           /\ lastCall'.model = fallbackModel
      /\ calls'[1] > calls[1] => lastCall.error < errIdx ]_vars

C6_Witness ==
  /\ lastCall.attempt = 2
  /\ lastCall.model = fallbackModel
  /\ lastCall.result = "fix"

\* C7: the confidence of every Fix is 0.8 or 0.7, and the Fix a call has
\* just produced has 0.8 when that call went to the primary model and 0.7
\* when it went to the fallback model.
C7_ConfidenceByModel ==
  /\ \A k \in 1..Len(fixes) :
       fixes[k].confidence \in {PrimaryConfidence, FallbackConfidence}
  /\ \A k \in 1..Len(returned) :
       returned[k].confidence \in {PrimaryConfidence, FallbackConfidence}
  /\ lastCall.result = "fix"
       => /\ fixes = Append(lastCall.fixesBefore, fixes[Len(fixes)])
          /\ fixes[Len(fixes)].confidence =
               IF lastCall.attempt = 1 THEN PrimaryConfidence
               ELSE FallbackConfidence

C7_Witness ==
  /\ pc = "ai_done"
  /\ \E j, k \in 1..Len(returned) :
       /\ returned[j].confidence = PrimaryConfidence
       /\ returned[k].confidence = FallbackConfidence

\* C8: after a call that succeeded with an empty sanitized output no Fix has
\* been added, the batch is not aborted, and the loop is at the primary model
\* of the next error (or past the last error): no fallback call is made.
C8_EmptyOutputIsSkipped ==
  lastCall.result = "empty"
    => /\ fixes = lastCall.fixesBefore
       /\ ~aborted
       /\ pc = "ai_loop" => errIdx = lastCall.error + 1 /\ modelIdx = 1
       /\ pc # "ai_loop" => lastCall.error = Len(Selected)

C8_Witness ==
  /\ lastCall.result = "empty"
  /\ lastCall.attempt = 1
  /\ Len(modelsToTry) = 2
  /\ pc = "ai_loop"
  /\ errIdx = lastCall.error + 1

(***************************************************************************)
(* Properties of applyFixes (checked under SpecApply)                      *)
(***************************************************************************)

\* the number of line feeds of a content
LineFeeds(content) ==
  Cardinality({ i \in 1..Len(content) : content[i] = "\n" })

\* the number of lines of a file as a text file: its line feeds, and one
\* more for a last line that no line feed ends
TextLines(content) ==
  LineFeeds(content)
    + (IF content # <<>> /\ content[Len(content)] # "\n" THEN 1 ELSE 0)

\* the number of pieces of a content between line feeds
Segments(content) == LineFeeds(content) + 1

\* an iteration of the loop over the fixes that leaves the audit list and
\* every line in memory as they were; a file it loads is loaded as it is on disk
LeavesAllLines ==
  /\ applied' = applied
  /\ Len(fileMap') >= Len(fileMap)
  /\ \A i \in 1..Len(fileMap') :
       IF i <= Len(fileMap) THEN fileMap'[i] = fileMap[i]
       ELSE Join(fileMap'[i].lines) = disk[fileMap'[i].path]

\* C9 as stated: a Fix whose file does not exist, or whose line is outside
\* 1..(number of lines of the file), changes no line and adds no record.
C9_SkipsOutsideTextLines ==
  [][ (pc = "apply_loop"
        /\ LET error == fixArg[fixIdx].error
           IN  \/ error.file \notin DOMAIN disk
               \/ error.line \notin 1..TextLines(disk[error.file]))
      => LeavesAllLines ]_vars

\* C9 amended: a Fix whose file does not exist, or whose line is outside
\* 1..N, N being the number of pieces of the file content between line feeds
\* (one more than its line feeds: an empty file has one line, a file that
\* ends in a line feed has an empty last line), changes no line and adds no
\* record; this covers line 0 and every line beyond N.
C9_SkipsOutsideSegments ==
  [][ (pc = "apply_loop"
        /\ LET error == fixArg[fixIdx].error
           IN  \/ error.file \notin DOMAIN disk
               \/ error.line \notin 1..Segments(disk[error.file]))
      => LeavesAllLines ]_vars

C9_Witness ==
  /\ pc = "apply_done"
  /\ runs = 1
  /\ Len(fixArg) = 2
  /\ Len(fileMap) = 1
  /\ fixArg[1].error.file = fileMap[1].path
  /\ fixArg[1].error.line > Len(fileMap[1].lines)
  /\ Len(applied) = 1
  /\ applied[1].line = fixArg[2].error.line

\* C10: a second applyFixes call with the same single Fix leaves every file
\* as the first call left it.
C10_ApplyTwiceIsApplyOnce ==
  (pc = "apply_done" /\ runs = 2 /\ Len(fixArg) = 1) => disk = firstDisk

\* the line array applyFixes holds for a file it has loaded
LinesOf(file) == fileMap[EntryOf(fileMap, file)].lines

\* the lines of a file before the current iteration: the array when the file
\* is loaded, else the content on disk, split
LinesBefore(file) ==
  IF Has(fileMap, file) THEN LinesOf(file) ELSE Split(disk[file])

\* the k-th Fix of the list is not skipped
IsApplied(k) ==
  /\ fixArg[k].error.file \in DOMAIN disk
  /\ Has(fileMap, fixArg[k].error.file)
  /\ fixArg[k].error.line \in 1..Len(LinesOf(fixArg[k].error.file))

\* C11: every record of the returned audit list has as its new text the
\* text that is written to disk for its line slot; a Fix whose replacement a
\* later Fix of the list overwrites has no record.
C11_AuditOnlyWhatIsWritten ==
  pc = "apply_done"
    => \A k \in 1..Len(applied) :
         /\ disk[applied[k].file] = Join(LinesOf(applied[k].file))
         /\ LinesOf(applied[k].file)[applied[k].line] = applied[k].new

\* C12: when applyFixes has returned, the slot of a line that Fixes of the
\* list target holds the trimmed suggestion of the last of them in the list,
\* and the file on disk is the join of the slots.
C12_LaterFixWins ==
  pc = "apply_done"
    => \A k \in 1..Len(fixArg) :
         (/\ IsApplied(k)
          /\ \A j \in (k + 1)..Len(fixArg) :
               fixArg[j].error # fixArg[k].error)
           => /\ LinesOf(fixArg[k].error.file)[fixArg[k].error.line]
                   = Trim(fixArg[k].suggestion)
              /\ disk[fixArg[k].error.file]
                   = Join(LinesOf(fixArg[k].error.file))

C12_Witness ==
  /\ pc = "apply_done"
  /\ Len(fixArg) = 2
  /\ fixArg[1].error = fixArg[2].error
  /\ Trim(fixArg[1].suggestion) # Trim(fixArg[2].suggestion)
  /\ Len(applied) = 2
  /\ LinesOf(fixArg[2].error.file)[fixArg[2].error.line]
       = Trim(fixArg[2].suggestion)

\* C13: a file is written only after the loop over the fixes has ended, what
\* is written is the join of its final slots, the files change by these
\* writes only, no file is written twice, and when applyFixes returns every
\* file with an audit record has been written once.
C13_WrittenOnceAfterTheLoop ==
  [][ /\ \A f \in FileNames :
           writes'[f] > writes[f]
             => /\ pc = "apply_write"
                /\ fixIdx = Len(fixArg) + 1
                /\ fileMap' = fileMap
                /\ disk'[f] = Join(LinesOf(f))
      /\ disk' # disk => \E f \in FileNames : writes'[f] > writes[f]
      /\ \A f \in FileNames : writes'[f] <= 1
      /\ pc' = "apply_done"
           => \A k \in 1..Len(applied') : writes'[applied'[k].file] = 1 ]_vars

C13_Witness ==
  /\ pc = "apply_done"
  /\ Len(applied) = 2
  /\ applied[1].file # applied[2].file
  /\ writes["a.c"] = 1
  /\ writes["b.c"] = 1

\* C14: an iteration that applies a Fix changes the slot line-1 of the array
\* of its file to the trimmed suggestion and nothing else: the array keeps
\* its length and its other slots, the arrays of the other files stay as
\* they are; and a write changes no file that has no audit record.
C14_OneSlotPerFix ==
  [][ /\ (pc = "apply_loop" /\ Len(applied') = Len(applied) + 1)
           => LET fix == fixArg[fixIdx]
                  file == fix.error.file
                  before == LinesBefore(file)
                  after == fileMap'[EntryOf(fileMap', file)].lines
              IN  /\ Len(after) = Len(before)
                  /\ \A i \in 1..Len(before) :
                       after[i] = IF i = fix.error.line
                                  THEN Trim(fix.suggestion) ELSE before[i]
                  /\ \A i \in 1..Len(fileMap) :
                       fileMap[i].path # file => fileMap'[i] = fileMap[i]
                  /\ disk' = disk
      /\ \A f \in DOMAIN disk :
           disk'[f] # disk[f]
             => \E k \in 1..Len(applied) : applied[k].file = f ]_vars

C14_Witness ==
  /\ pc = "apply_done"
  /\ Len(applied) = 1
  /\ applied[1].file = "a.c"
  /\ Len(Split(applied[1].new)) = 2
  /\ Len(LinesOf("a.c")) = 2
  /\ disk["b.c"] = <<"c">>

(***************************************************************************)
(* Properties of analyzeCode (checked under SpecAnalyze)                   *)
(***************************************************************************)

\* the elements of a list
Range(list) == { list[i] : i \in 1..Len(list) }

\* the Result of the latest analyzeCode that has returned
Latest == results[Len(results)]

\* C15: when analyzeCode returns, whatever calls of analyzeCode, getAIFixes
\* and applyFixes came before, the errors and warnings of its Result are the
\* Issues its own passes have pushed, each once, and its fixes list is empty.
C15_AccumulatorsOverwritten ==
  pc = "an_done"
    => /\ Range(Latest.errors) \cup Range(Latest.warnings) = Range(pushed)
       /\ Len(Latest.errors) + Len(Latest.warnings) = Len(pushed)
       /\ Latest.fixes = <<>>
       /\ Latest.summary.totalErrors = Len(Latest.errors)
       /\ Latest.summary.totalWarnings = Len(Latest.warnings)
       /\ Latest.summary.totalFixes = 0

C15_Witness ==
  /\ pc = "an_done"
  /\ Len(results) = 2
  /\ results[1].errors # <<>>
  /\ results[1].warnings # <<>>
  /\ returned # <<>>
  /\ Latest.fixes = <<>>
  /\ Latest.errors = results[1].errors

\* the values of the fields of an Issue
IssueTypes == {"syntax", "compilation", "static_analysis", "quality"}

Severities == {"error", "warning"}

\* C16: every Issue a pass has pushed has a severity of error or warning, a
\* type of syntax, compilation, static_analysis or quality and a line of 0 or
\* more; the errors list holds the pushed Issues of severity error, and the
\* warnings list those of severity warning.
C16_SeverityDecidesTheList ==
  LET IsError(issue) == issue.severity = "error"
      IsWarning(issue) == issue.severity = "warning"
  IN  /\ \A issue \in Range(pushed) :
           /\ issue.severity \in Severities
           /\ issue.type \in IssueTypes
           /\ issue.line >= 0
      /\ thisErrors = SelectSeq(pushed, IsError)
      /\ thisWarnings = SelectSeq(pushed, IsWarning)

C16_Witness ==
  /\ pc = "an_done"
  /\ \E issue \in Range(thisErrors) :
       issue.type = "compilation" /\ issue.line = 0
  /\ \E issue \in Range(thisWarnings) : issue.type = "compilation"
  /\ \E issue \in Range(thisErrors) : issue.type = "static_analysis"
  /\ \E issue \in Range(thisWarnings) : issue.type = "static_analysis"
  /\ \E issue \in Range(thisWarnings) : issue.type = "quality"

\* the position of a pass in analyzeCode
PassOf(type) ==
  CHOOSE n \in 1..4 :
    <<"syntax", "compilation", "static_analysis", "quality">>[n] = type

\* the Issues of a list are in pass order, and those the syntax pass or the
\* quality pass report for one file are in ascending line order
InPassOrder(list) ==
  \A i \in 1..Len(list) : \A j \in (i + 1)..Len(list) :
    /\ PassOf(list[i].type) <= PassOf(list[j].type)
    /\ (/\ list[i].type = list[j].type
        /\ list[i].type \in {"syntax", "quality"}
        /\ list[i].file = list[j].file)
         => list[i].line <= list[j].line

\* C17: in every Result of analyzeCode the errors are in pass order (syntax,
\* compilation, static_analysis), the warnings are in pass order
\* (compilation, static_analysis, quality), and the Issues of the syntax pass
\* and of the quality pass for one file are in ascending line order.
C17_PassOrder ==
  \A k \in 1..Len(results) :
    /\ InPassOrder(results[k].errors)
    /\ InPassOrder(results[k].warnings)
    /\ \A issue \in Range(results[k].errors) : issue.type # "quality"
    /\ \A issue \in Range(results[k].warnings) : issue.type # "syntax"

C17_Witness ==
  /\ Len(results) = 1
  /\ \E i, j \in 1..Len(Latest.errors) :
       /\ i < j
       /\ Latest.errors[i].type = "syntax"
       /\ Latest.errors[j].type = "syntax"
       /\ Latest.errors[i].file = Latest.errors[j].file
       /\ Latest.errors[i].line < Latest.errors[j].line
  /\ \E i, j \in 1..Len(Latest.warnings) :
       /\ i < j
       /\ Latest.warnings[i].type = "quality"
       /\ Latest.warnings[j].type = "quality"
       /\ Latest.warnings[i].file = Latest.warnings[j].file
       /\ Latest.warnings[i].line < Latest.warnings[j].line
  /\ \E issue \in Range(Latest.errors) : issue.type = "compilation"
  /\ \E issue \in Range(Latest.errors) : issue.type = "static_analysis"
  /\ \E issue \in Range(Latest.warnings) : issue.type = "compilation"
  /\ \E issue \in Range(Latest.warnings) : issue.type = "static_analysis"

\* C18: a second run of analyzeCode that starts from the directory content
\* the first run started from, with the same options and the same tool
\* outputs, returns the errors and the warnings of the first run, in the same
\* order, whatever getAIFixes or applyFixes did on the instance in between.
C18_SameInputsSameLists ==
  (pc = "an_done" /\ Len(results) = 2 /\ starts[2] = starts[1])
    => /\ results[2].errors = results[1].errors
       /\ results[2].warnings = results[1].warnings

C18_Witness ==
  /\ pc = "an_done"
  /\ Len(results) = 2
  /\ starts[2] = starts[1]
  /\ runs = 1
  /\ Len(applied) = 1
  /\ \E issue \in Range(results[2].errors) : issue.file = <<"u", "n", "k", "n", "o", "w", "n">>
  /\ results[2].warnings # <<>>

\* the passes that run an external tool: the position of analyzeCode while
\* the tool runs, the type of the Issues of the pass and the positions after it
ToolPasses ==
  { [at |-> "an_compile", tool |-> "compiler", type |-> "compilation",
     next |-> {"an_cppcheck", "an_done"}],
    [at |-> "an_cppcheck", tool |-> "cppcheck", type |-> "static_analysis",
     next |-> {"an_clangtidy"}],
    [at |-> "an_clangtidy", tool |-> "clangTidy", type |-> "static_analysis",
     next |-> {"an_done"}] }

\* the number of Issues of a type in the two lists
CountOf(errs, warns, type) ==
  Cardinality({ i \in 1..Len(errs) : errs[i].type = type })
    + Cardinality({ i \in 1..Len(warns) : warns[i].type = type })

\* the pass of a tool adds no Issue of its type
AddsNothing(t) ==
  CountOf(thisErrors', thisWarnings', t.type)
    = CountOf(thisErrors, thisWarnings, t.type)

\* analyzeCode goes on to the passes after the pass of a tool, and returns a
\* Result of its lists when the pass is the last to add Issues
GoesOn(t) ==
  /\ pc' \in t.next
  /\ pc' = "an_done"
       => results' = Append(results,
                            Result(thisErrors', thisWarnings', thisFixes'))

\* C19 as stated: the pass of a tool that is unavailable or times out adds no
\* Issue, and analyzeCode goes on to the remaining passes and returns.
C19_FailedToolAddsNothing ==
  [][ \A t \in ToolPasses :
        (pc = t.at /\ pc' # pc /\ tools'[t.tool].error # "none")
          => AddsNothing(t) /\ GoesOn(t) ]_vars

\* C19 amended: the pass of a tool that is unavailable, or that times out
\* before it has written any output, adds no Issue; and after a tool that is
\* unavailable or times out, with or without output, analyzeCode goes on to
\* the remaining passes and returns a Result of its lists.
C19_UnavailableToolAddsNothing ==
  [][ \A t \in ToolPasses :
        (pc = t.at /\ pc' # pc /\ tools'[t.tool].error # "none")
          => /\ (\/ tools'[t.tool].error = "ENOENT"
                 \/ /\ Falsy(tools'[t.tool].stdout)
                    /\ Falsy(tools'[t.tool].stderr))
                  => AddsNothing(t)
             /\ GoesOn(t) ]_vars

C19_Witness ==
  /\ pc = "an_done"
  /\ Len(results) = 1
  /\ tools.compiler = Unavailable
  /\ tools.cppcheck.error = "ETIMEDOUT"
  /\ tools.clangTidy = Unavailable
  /\ CountOf(thisErrors, thisWarnings, "compilation") = 0
  /\ CountOf(thisErrors, thisWarnings, "static_analysis") = 1
  /\ CountOf(thisErrors, thisWarnings, "quality") > 0

\* the Issue is the one parseCompilerErrors builds from a match of
\* path:line:col: error|warning: message somewhere in the text
FromMatch(issue, text) ==
  \E p \in 1..Len(text) :
    LET m == DiagnosticAt(text, p)
    IN  /\ m.found
        /\ issue.file = Basename(m.file)
        /\ issue.line = parseInt(m.line)
        /\ issue.column = parseInt(m.col)
        /\ issue.message = Trim(m.message)
        /\ issue.severity = IF m.severity = <<"e", "r", "r", "o", "r">>
                            THEN "error" ELSE "warning"

\* the Issue is the one built from a line of the output that contains error:
\* without matching the grammar: an error of the file unknown at line 0
FromErrorLine(issue, output) ==
  /\ issue.severity = "error"
  /\ issue.file = <<"u", "n", "k", "n", "o", "w", "n">>
  /\ issue.line = 0
  /\ \E l \in Range(Split(output)) :
       /\ Includes(l, <<"e", "r", "r", "o", "r", ":">>)
       /\ issue.message = Trim(RemoveErrorWord(l))

\* the compilation Issues of the two lists
CompilationIssues ==
  { issue \in Range(thisErrors) \cup Range(thisWarnings) :
      issue.type = "compilation" }

\* C20 as stated: every compilation Issue comes from a line of the compiler
\* output that matches path:line:col: error|warning: message.
C20_OnlyMatchingLines ==
  \A issue \in CompilationIssues :
    \E l \in Range(Split(Output(tools.compiler))) : FromMatch(issue, l)

\* C20 amended: every compilation Issue comes from a match of
\* path:line:col: error|warning: message in the compiler output, or it is an
\* error of the file unknown at line 0 built from a line of the output that
\* contains error:, and then no error of the syntax pass and no error of a
\* match is in the errors list.
C20_MatchOrErrorLine ==
  \A issue \in CompilationIssues :
    \/ FromMatch(issue, Output(tools.compiler))
    \/ /\ FromErrorLine(issue, Output(tools.compiler))
       /\ \A e \in Range(thisErrors) :
            e.type \in {"syntax", "compilation"}
              => FromErrorLine(e, Output(tools.compiler))

C20_Witness ==
  /\ pc = "an_done"
  /\ \E issue \in Range(thisErrors) :
       /\ issue.type = "compilation"
       /\ FromErrorLine(issue, Output(tools.compiler))
       /\ ~FromMatch(issue, Output(tools.compiler))
  /\ \E issue \in Range(thisWarnings) :
       /\ issue.type = "compilation"
       /\ FromMatch(issue, Output(tools.compiler))

\* C21: a step of analyzeCode or of getAIFixes creates, changes and deletes
\* no file of the target directory: the files change only in the steps of
\* applyFixes, and when analyzeCode returns the directory holds the files,
\* with the contents, it held when analyzeCode was called.
C21_OnlyApplyFixesWrites ==
  [][ /\ pc \notin {"apply_loop", "apply_write"} => disk' = disk
      /\ (pc' = "an_done" /\ pc # "an_done")
           => disk' = starts'[Len(starts')] ]_vars

\* C22: analyzeCode on a target directory that does not exist returns no
\* Result, with the files argument omitted and with an explicit file list.
C22_MissingDirectoryFails ==
  disk = NoDir => results = <<>>


(***************************************************************************)
(* Properties of sanitizeFixSuggestion                                     *)
(***************************************************************************)

\* the lines of a returned text, none for the empty text
ReturnedLines(text) == IF text = <<>> THEN <<>> ELSE Split(text)

\* C26: for a response holding a fenced block, with or without a language
\* tag and a trailing note, sanitizeFixSuggestion returns exactly the code
\* inside the fences: no fence, no tag, no text from outside the fences.
C26_OnlyFencedCode ==
  pc = "san_done" =>
    \A t \in Tags \X SeqsUpTo(CodeLines, MaxRawLines) \X Trailers :
      raw = FencedInput(t[1], t[2], t[3]) => clean = Trim(Join(t[2]))

\* a line with a numbered-list prefix: digits, then a colon
HasListPrefix(line) ==
  DigitLen(line) > 0 /\ DigitLen(line) < Len(line)
    /\ line[DigitLen(line) + 1] = ":"

\* C27: of a response of one code line, sanitizeFixSuggestion removes a
\* leading digits-colon prefix and nothing else, and it keeps unchanged a
\* line that begins with '#' and a line that begins with digits but has no
\* digits-colon prefix.
C27_OnlyListPrefixStripped ==
  (pc = "san_done" /\ raw \in CodeLines \cup { <<"1", "2", ":", " ", "y", ";">> }) =>
    clean = IF HasListPrefix(Trim(raw))
            THEN Trim(Drop(Trim(raw), DigitLen(Trim(raw)) + 2))
            ELSE Trim(raw)

\* a line that begins, after leading white space, with '>>>', a fence, or
\* "Note:" bare or in a // comment
NoteColon(s) ==
  Len(s) >= 5 /\ [i \in 1..5 |-> Lower(s[i])] = <<"n", "o", "t", "e", ":">>

Annotation(line) ==
  LET t == TrimStart(line) IN
    \/ StartsWith(t, <<">", ">", ">">>)
    \/ StartsWith(t, Fence)
    \/ NoteColon(t)
    \/ StartsWith(t, <<"/", "/">>) /\ NoteColon(TrimStart(Drop(t, 3)))

\* C30: every line sanitizeFixSuggestion returns is non-blank and is no
\* annotation: it begins with neither '>>>', nor a fence, nor "Note:".
C30_NoAnnotationLeft ==
  pc = "san_done" =>
    \A i \in 1..Len(ReturnedLines(clean)) :
      /\ Trim(ReturnedLines(clean)[i]) # <<>>
      /\ ~Annotation(ReturnedLines(clean)[i])

\* the Issues of the compilation pass in a list
OfCompilation(list) ==
  LET IsCompilation(issue) == issue.type = "compilation"
  IN  SelectSeq(list, IsCompilation)

\* C28: the Issues the compilation pass records for a compiler result are
\* those it records for that result when the earlier passes recorded no
\* Issue: they do not depend on what is in the lists before the pass.
C28_CompilationOfOutputOnly ==
  [][ (pc = "an_compile" /\ pc' # "an_compile") =>
        /\ OfCompilation(thisErrors')
             = compiled(tools'.compiler, <<>>, <<>>).errors
        /\ OfCompilation(thisWarnings')
             = compiled(tools'.compiler, <<>>, <<>>).warnings ]_vars

\* the Issues of a type in the two lists of a Result
OfType(result, type) ==
  { issue \in Range(result.errors) \cup Range(result.warnings) :
      issue.type = type }

\* C24 as stated: every pass has a setting that disables it, so with every
\* pass setting of the configuration off analyzeCode returns no Issue.
C24_EveryPassHasASetting ==
  (/\ pc = "an_done"
   /\ ~Truthy(options.useCompiler)
   /\ ~Truthy(options.useStaticAnalysis))
    => Latest.errors = <<>> /\ Latest.warnings = <<>>

\* C24 amended: the compilation pass and the static analysis pass each have
\* a setting.  With useCompiler off the compiler is never run and no Issue of
\* type compilation is returned; with useStaticAnalysis off neither cppcheck
\* nor clang-tidy is run and no Issue of type static_analysis is returned.
\* The syntax pass has no setting: under every configuration its Issues on
\* the files analysed are returned.
C24_CompilerAndStaticSettings ==
  /\ ~Truthy(options.useCompiler)
       => /\ tools.compiler = NotRun
          /\ \A i \in 1..Len(results) : OfType(results[i], "compilation") = {}
  /\ ~Truthy(options.useStaticAnalysis)
       => /\ tools.cppcheck = NotRun /\ tools.clangTidy = NotRun
          /\ \A i \in 1..Len(results) :
               OfType(results[i], "static_analysis") = {}
  /\ pc = "an_done"
       => OfType(Latest, "syntax")
            = Range(checkSyntax(codeFiles, starts[Len(starts)]))

\* analyzeCode has returned syntax Issues with the compiler switched off and
\* the static analysis tools run
C24_Witness ==
  /\ pc = "an_done"
  /\ ~Truthy(options.useCompiler)
  /\ Truthy(options.useStaticAnalysis)
  /\ tools.cppcheck # NotRun
  /\ OfType(Latest, "syntax") # {}
  /\ OfType(Latest, "static_analysis") # {}

(***************************************************************************)
(* Properties of the drivers                                               *)
(***************************************************************************)

\* C23: a driver that has applied at least one fix has run analyzeCode again
\* on the patched files before it ends, and applyFixes is called only with
\* the non-empty list getAIFixes has returned.
C23_ReanalysisAfterFixes ==
  /\ (pc = "drv_done" /\ Len(applied) > 0)
       => Len(starts) = 2 /\ starts[2] = disk
  /\ runs > 0 => returned # <<>> /\ fixArg = returned

\* C25: the CLI constructs the TracebackSystem with the model named after
\* --model when the option is on the command line, and with codellama:7b
\* when it is not.
C25_CliModel ==
  driver = "cli" =>
    options.aiModel =
      IF \E i \in 1..(Len(args) - 1) : args[i] = "--model"
      THEN args[1 + CHOOSE i \in 1..(Len(args) - 1) : args[i] = "--model"]
      ELSE "codellama:7b"

\* the sum of the counts of a histogram
RECURSIVE Total(_)
Total(histogram) ==
  IF DOMAIN histogram = {} THEN 0
  ELSE LET t == CHOOSE x \in DOMAIN histogram : TRUE
       IN  histogram[t]
             + Total([x \in DOMAIN histogram \ {t} |-> histogram[x]])

\* the summary of a Result agrees with its lists
SummaryAgrees(result) ==
  /\ result.summary.totalErrors = Len(result.errors)
  /\ result.summary.totalWarnings = Len(result.warnings)
  /\ result.summary.totalFixes = Len(result.fixes)
  /\ Total(result.summary.errorTypes) = result.summary.totalErrors
  /\ Total(result.summary.warningTypes) = result.summary.totalWarnings

\* C29: the summary agrees with the lists in every Result analyzeCode has
\* returned and in the Result the driver reports after it has stored the
\* fixes of getAIFixes in it.
C29_SummaryAgrees ==
  /\ \A i \in 1..Len(results) : SummaryAgrees(results[i])
  /\ report # NoReport => SummaryAgrees(report)
====
